---- MODULE Spec2Model ----
(***************************************************************************)
(* A model of gentics/mesh-model-generator: the schema normalizer of       *)
(* src/src/parser.ts (MeshRamlParser) and the parts of the TypeScript      *)
(* renderer that consume its result.                                       *)
(*                                                                         *)
(* JavaScript objects have reference identity, so schema definitions live  *)
(* in a heap (a sequence of nodes, an address is an index) and the model   *)
(* registry maps an id to an address.                                      *)
(***************************************************************************)
EXTENDS Naturals, Integers, Sequences, FiniteSets, TLC

(***************************************************************************)
(* Bounds of the model.                                                    *)
(***************************************************************************)
\* the number of schema nodes the inputs of one run may hold in total
MaxNodes == 3

(***************************************************************************)
(* PropertyDefinition (src/src/interfaces.ts).                             *)
(***************************************************************************)
PrimitiveTypes == {"any", "boolean", "integer", "number", "string"}

\* an absent string field: `schema.$ref || schema.id || ''` treats undefined
\* and '' alike
NoId == ""

\* a "type" key that is missing from the definition
NoType == "none"

\* a type tag that is none of the seven known ones
UnknownType == "foo"

ModelIds == {"X", "Y"}

\* the property names of an Object definition, in Object.keys order
PropKeys == <<"p", "q">>

SeqRange(s) == {s[i] : i \in 1..Len(s)}

\* A definition: its type tag, id, $ref and its child definitions by slot
\* ("p", "q": entries of properties; "items"; "addl": additionalProperties).
\* In a tree the children are trees, in the heap they are addresses.
\* "required" is the flag of the definition: absent counts as false
Node(type, id, ref, kids) ==
    [type |-> type, id |-> id, ref |-> ref, kids |-> kids, required |-> FALSE]

NoKids == <<>>

(***************************************************************************)
(* State.                                                                  *)
(***************************************************************************)
VARIABLES
    heap,       \* the schema objects: heap[a] is the object at address a
    modelMap,   \* the model registry: id -> address (parser.ts:48)
    stack,      \* the frames of the normalizeSchema call in progress
    retval,     \* the value the last completed normalizeSchema returned
    phase,      \* "idle", "input", "running", "done" or "failed"
    path,       \* while an input is parsed: root .. last parsed definition
    error,      \* the error thrown, once phase = "failed"
    calls,      \* the completed top-level calls: argument and result
    steps,      \* the steps the call in progress has taken
    parsed,     \* the definitions as JSON.parse gave them: address -> node
    output,     \* what the renderer returned, once phase = "rendered"
    document,   \* the paths of the RAML document that were traversed
    endpoints,  \* the endpoints array of findModelsAndEndpoints
    responseMap, \* the responses of a request of the RAML document
    pending,    \* the status codes traverseResponseSchemas has yet to visit
    responses,  \* responseTypes, the result of traverseResponseSchemas
    args,       \* the arguments of the call of an entry point or a utility
    returned,   \* what that call returned, or how it failed
    ramlDocument, \* the decoded RAML document of parseRAML (parser.ts:24)
    decoderCalls, \* how often parseYamlToObject was called
    written,    \* the texts written to the output file or stream, in order
    registries, \* the registries ("models", parser.ts:48) that were created
    runs        \* the traversals under way, each with its registry and stack

vars == <<heap, modelMap, stack, retval, phase, path, error, calls, steps,
          parsed, output, document, endpoints, responseMap, pending, responses,
          args, returned, ramlDocument, decoderCalls, written, registries, runs>>

\* the state of the normalizer and of the schemas
schemaVars == <<heap, modelMap, stack, retval, path, calls, steps, parsed>>

\* the endpoints and where they come from
uriVars == <<document, endpoints>>

\* the responses of one request
responseVars == <<responseMap, pending, responses>>

\* what parsing and normalizing a schema leave alone
docVars == <<output, document, endpoints, responseMap, pending, responses>>

\* the calls of the entry points and of the utilities
toolVars == <<args, returned, ramlDocument, decoderCalls, written, registries, runs>>

NoAddr == 0
NoError == [kind |-> "none", value |-> NoAddr, shown |-> ""]

\* renderAll has not been called
NoOutput == [rendered |-> FALSE]

\* a request of the RAML document that has no "responses" key
NoResponseMap == [defined |-> FALSE, map |-> <<>>]

\* the normalizer's part of the state as one value
St == [heap |-> heap, modelMap |-> modelMap, stack |-> stack,
       retval |-> retval, error |-> error]

Frame(a) == [node |-> a, pc |-> "entry", keys |-> <<>>]

(***************************************************************************)
(* The input schemas: what JSON.parse gives for the schema text of a body  *)
(* (parser.ts:128, 174): a finite tree of fresh objects. The tree is laid  *)
(* out in the heap in document order, one definition at a time.            *)
(***************************************************************************)
IdOrNone == ModelIds \cup {NoId}

\* a definition as it is read, before its children: a primitive, an unknown
\* type tag, a definition without a type tag (with or without a $ref), an
\* Array, or an Object with any combination of id and $ref (only id, only
\* $ref, both and equal, both and different, neither)
Definitions ==
    {Node(t, NoId, NoId, NoKids) : t \in PrimitiveTypes \cup {UnknownType, "array"}}
    \cup {Node(NoType, NoId, r, NoKids) : r \in {NoId, "X"}}
    \cup {Node("object", i, r, NoKids) : i \in IdOrNone, r \in IdOrNone}

\* the definitions that may occur below the root: the five primitive kinds
\* share one case of normalizeSchema, one of them stands for all below the
\* root
NestedDefinitions ==
    {d \in Definitions : d.type \in PrimitiveTypes => d.type = "string"}

\* The normalizer only compares ids, so a document and the one with "X" and
\* "Y" exchanged behave alike: of the two, only the one whose first named
\* model is "X" is parsed.
Mentions(n) == {n.id, n.ref} \ {NoId}

FirstIsX(d) ==
    \/ Mentions(d) = {}
    \/ d.id = "X"
    \/ d.id = NoId /\ d.ref = "X"
    \/ \E a \in 1..Len(heap) : Mentions(heap[a]) # {}

\* the child slots a definition may fill, in document order
SlotsOf(n) ==
    IF n.type = "array" THEN <<"items">>
    ELSE IF n.type = "object" THEN PropKeys \o <<"addl">>
    ELSE <<>>

SlotIndex(sl, s) == CHOOSE i \in 1..Len(sl) : sl[i] = s

\* the slots of n that come after all the slots n has filled; the names of
\* the properties do not matter, so the first property is "p"
FreeSlots(n) ==
    LET sl == SlotsOf(n)
    IN {sl[i] : i \in {j \in 1..Len(sl) :
                         /\ \A s \in DOMAIN n.kids : SlotIndex(sl, s) < j
                         /\ sl[j] = "q" => "p" \in DOMAIN n.kids}}

\* JSON.parse reads the root definition of a schema text
ParseRoot(d) ==
    /\ phase \in {"idle", "done"}
    /\ Len(heap) < MaxNodes
    /\ FirstIsX(d) = TRUE
    /\ heap' = Append(heap, d)
    /\ parsed' = (Len(heap) + 1 :> d) @@ parsed
    /\ path' = <<Len(heap) + 1>>
    /\ phase' = "input"
    /\ UNCHANGED <<modelMap, stack, retval, error, calls, steps>>
    /\ UNCHANGED docVars
    /\ UNCHANGED toolVars

\* JSON.parse reads the next definition, a child of one on the current path
ParseChild(i, s, d) ==
    /\ phase = "input"
    /\ Len(heap) < MaxNodes
    /\ i \in 1..Len(path)
    /\ s \in FreeSlots(heap[path[i]])
    /\ FirstIsX(d) = TRUE
    /\ LET a == Len(heap) + 1
       IN /\ heap' = Append([heap EXCEPT ![path[i]].kids = (s :> a) @@ @], d)
          /\ parsed' = (a :> d) @@ [parsed EXCEPT ![path[i]].kids = (s :> a) @@ @]
          /\ path' = Append(SubSeq(path, 1, i), a)
    /\ UNCHANGED <<modelMap, stack, retval, phase, error, calls, steps>>
    /\ UNCHANGED docVars
    /\ UNCHANGED toolVars

(***************************************************************************)
(* normalizeSchema (parser.ts:188-230). The function is a state machine    *)
(* over st = [heap, modelMap, stack, retval, error]; one step is one       *)
(* stretch of the function body between a call or an await and the next.   *)
(***************************************************************************)
\* const id = schema.$ref || schema.id || ''
LookupKey(n) == IF n.ref # NoId THEN n.ref ELSE n.id

\* id in modelMap
InModelMap(mm, key) == key \in DOMAIN mm

\* a normalizer that does not register a model before it visits its
\* properties
StoreModelSkipped(mm, n, a) == mm

\* else if (schema.id) { modelMap[schema.id] = schema; }
StoreModel(mm, n, a) == IF n.id # NoId THEN (n.id :> a) @@ mm ELSE mm

\* a hashType whose type tag is always object
ForceObjectType(n) == [n EXCEPT !.type = "object"]

\* Object.assign({ type: 'object' }, source): a new object with the fields
\* of source, and type 'object' where source has no type
AssignObjectType(n) == [n EXCEPT !.type = IF @ = NoType THEN "object" ELSE @]

\* the keys of schema.properties, in Object.keys order
PropertyKeys(n) == SelectSeq(PropKeys, LAMBDA k : k \in DOMAIN n.kids)

KnownTypes == PrimitiveTypes \cup {"array", "object"}

\* unhandledCase(schema, 'type') (utils/unhandled-case.ts:13-20): the error
\* names the property and the value it has in the offending definition
UnhandledCase(st, a) ==
    [kind |-> "unhandledCase", value |-> a, shown |-> st.heap[a].type]

TopOf(st) == st.stack[Len(st.stack)]
TopNodeOf(st) == st.heap[TopOf(st).node]
PopOf(st) == SubSeq(st.stack, 1, Len(st.stack) - 1)
SetTopOf(st, f) == [st.stack EXCEPT ![Len(st.stack)] = f]

\* return v from the call on top of the stack
ReturnOp(st, v) == [st EXCEPT !.stack = PopOf(st), !.retval = v]

\* an exception: no caller catches, every pending call is abandoned
ThrowOp(st, e) == [st EXCEPT !.stack = <<>>, !.error = e]

\* a normalizer that returns a copy of a primitive definition
EnterPrimitiveOpCopy(st) ==
    ReturnOp([st EXCEPT !.heap = Append(@, TopNodeOf(st))], Len(st.heap) + 1)

\* case 'any' .. 'string': return schema
EnterPrimitiveOp(st) == ReturnOp(st, TopOf(st).node)

\* case 'array', up to the await of the recursive call
EnterArrayOp(st) ==
    IF "items" \notin DOMAIN TopNodeOf(st).kids
    THEN \* arrayType is undefined: reading arrayType.type throws
         ThrowOp(st, [kind |-> "TypeError", value |-> TopOf(st).node, shown |-> "items"])
    ELSE LET item == TopNodeOf(st).kids["items"]
             fix == st.heap[item].type = NoType /\ st.heap[item].ref # NoId
             arg == IF fix THEN Len(st.heap) + 1 ELSE item
         IN [st EXCEPT
               !.heap = IF fix THEN Append(@, AssignObjectType(st.heap[item])) ELSE @,
               !.stack = Append(SetTopOf(st, [TopOf(st) EXCEPT !.pc = "awaitItems"]),
                                Frame(arg))]

\* an Array case that returns the array with the items it had
ItemsReturnKeptOp(st) == ReturnOp(st, TopOf(st).node)

\* schema.items = <result>; return schema
ItemsReturnOp(st) ==
    ReturnOp([st EXCEPT !.heap[TopOf(st).node].kids["items"] = st.retval],
             TopOf(st).node)

\* case 'object', the model is in the registry: return modelMap[id]
EnterObjectKnownOp(st) == ReturnOp(st, st.modelMap[LookupKey(TopNodeOf(st))])

\* case 'object', the model is not in the registry: store it under its id
\* and start on its properties
EnterObjectNewOp(st) ==
    [st EXCEPT
       !.modelMap = StoreModel(@, TopNodeOf(st), TopOf(st).node),
       !.stack = SetTopOf(st, [TopOf(st) EXCEPT !.pc = "props",
                                                !.keys = PropertyKeys(TopNodeOf(st))])]

\* the recursive call for the next property
PropCallOp(st) ==
    [st EXCEPT !.stack = Append(SetTopOf(st, [TopOf(st) EXCEPT !.pc = "awaitProp"]),
                                Frame(TopNodeOf(st).kids[Head(TopOf(st).keys)]))]

\* schema.properties[key] = <result>
PropReturnOp(st) ==
    [st EXCEPT !.heap[TopOf(st).node].kids[Head(TopOf(st).keys)] = st.retval,
               !.stack = SetTopOf(st, [TopOf(st) EXCEPT !.pc = "props",
                                                        !.keys = Tail(@)])]

\* if (schema.additionalProperties): the recursive call on the wrapped copy
AddlCallOp(st) ==
    [st EXCEPT
       !.heap = Append(@, AssignObjectType(st.heap[TopNodeOf(st).kids["addl"]])),
       !.stack = Append(SetTopOf(st, [TopOf(st) EXCEPT !.pc = "awaitAddl"]),
                        Frame(Len(st.heap) + 1))]

\* schema.additionalProperties = <result>; return schema
AddlReturnOp(st) ==
    ReturnOp([st EXCEPT !.heap[TopOf(st).node].kids["addl"] = st.retval],
             TopOf(st).node)

\* no additionalProperties: return schema
ObjectReturnOp(st) == ReturnOp(st, TopOf(st).node)

\* a normalizer whose default case returns the definition as it is
EnterUnhandledOpReturn(st) == ReturnOp(st, TopOf(st).node)

\* default: return unhandledCase(schema, 'type'), which throws
EnterUnhandledOp(st) == ThrowOp(st, UnhandledCase(st, TopOf(st).node))

\* where the call on top of the stack stands
StepKind(st) ==
    LET f == TopOf(st)
        n == TopNodeOf(st)
    IN CASE f.pc = "entry" /\ n.type \in PrimitiveTypes -> "EnterPrimitive"
         [] f.pc = "entry" /\ n.type = "array" -> "EnterArray"
         [] f.pc = "entry" /\ n.type = "object" /\ InModelMap(st.modelMap, LookupKey(n))
                -> "EnterObjectKnown"
         [] f.pc = "entry" /\ n.type = "object" /\ ~InModelMap(st.modelMap, LookupKey(n))
                -> "EnterObjectNew"
         [] f.pc = "entry" /\ n.type \notin KnownTypes -> "EnterUnhandled"
         [] f.pc = "props" /\ f.keys # <<>> -> "PropCall"
         [] f.pc = "props" /\ f.keys = <<>> /\ "addl" \in DOMAIN n.kids -> "AddlCall"
         [] f.pc = "props" /\ f.keys = <<>> /\ "addl" \notin DOMAIN n.kids -> "ObjectReturn"
         [] f.pc = "awaitProp" -> "PropReturn"
         [] f.pc = "awaitItems" -> "ItemsReturn"
         [] f.pc = "awaitAddl" -> "AddlReturn"

NormalizeStep(st) ==
    LET k == StepKind(st)
    IN CASE k = "EnterPrimitive" -> EnterPrimitiveOp(st)
         [] k = "EnterArray" -> EnterArrayOp(st)
         [] k = "EnterObjectKnown" -> EnterObjectKnownOp(st)
         [] k = "EnterObjectNew" -> EnterObjectNewOp(st)
         [] k = "EnterUnhandled" -> EnterUnhandledOp(st)
         [] k = "PropCall" -> PropCallOp(st)
         [] k = "AddlCall" -> AddlCallOp(st)
         [] k = "ObjectReturn" -> ObjectReturnOp(st)
         [] k = "PropReturn" -> PropReturnOp(st)
         [] k = "ItemsReturn" -> ItemsReturnOp(st)
         [] k = "AddlReturn" -> AddlReturnOp(st)

\* the whole call: normalizeSchema(schema, modelMap) run to its end
RECURSIVE RunNormalize(_)
RunNormalize(st) == IF st.stack = <<>> THEN st ELSE RunNormalize(NormalizeStep(st))

NormalizeSchema(h, mm, a) ==
    RunNormalize([heap |-> h, modelMap |-> mm, stack |-> <<Frame(a)>>,
                  retval |-> NoAddr, error |-> NoError])

(***************************************************************************)
(* The normalizer run step by step on the shared registry.                 *)
(***************************************************************************)
\* a caller (traverseRequest, traverseResponseSchemas, a test) calls
\* normalizeSchema(schema, models) with the parsed schema
Call ==
    /\ phase = "input"
    /\ stack' = <<Frame(path[1])>>
    /\ phase' = "running"
    /\ path' = <<>>
    /\ steps' = 0
    /\ UNCHANGED <<heap, modelMap, retval, error, calls, parsed>>
    /\ UNCHANGED docVars
    /\ UNCHANGED toolVars

\* the step of kind k, and what its end means to the caller
Act(k, Op(_)) ==
    /\ phase = "running"
    /\ stack # <<>>
    /\ StepKind(St) = k
    /\ LET r == Op(St)
       IN /\ heap' = r.heap
          /\ modelMap' = r.modelMap
          /\ stack' = r.stack
          /\ retval' = r.retval
          /\ error' = r.error
          /\ phase' = IF r.error # NoError THEN "failed"
                      ELSE IF r.stack = <<>> THEN "done" ELSE "running"
          /\ calls' = IF r.error = NoError /\ r.stack = <<>>
                      THEN Append(calls, [root |-> stack[1].node, ret |-> r.retval])
                      ELSE calls
    /\ steps' = steps + 1
    /\ UNCHANGED <<path, parsed>>
    /\ UNCHANGED docVars
    /\ UNCHANGED toolVars

EnterPrimitive == Act("EnterPrimitive", EnterPrimitiveOp)
EnterArray == Act("EnterArray", EnterArrayOp)
ItemsReturn == Act("ItemsReturn", ItemsReturnOp)
EnterObjectKnown == Act("EnterObjectKnown", EnterObjectKnownOp)
EnterObjectNew == Act("EnterObjectNew", EnterObjectNewOp)
PropCall == Act("PropCall", PropCallOp)
PropReturn == Act("PropReturn", PropReturnOp)
AddlCall == Act("AddlCall", AddlCallOp)
AddlReturn == Act("AddlReturn", AddlReturnOp)
ObjectReturn == Act("ObjectReturn", ObjectReturnOp)
EnterUnhandled == Act("EnterUnhandled", EnterUnhandledOp)

\* no entry point and no utility has been called
NoArgs == [called |-> "nothing"]
NoReturn == [returned |-> FALSE]

InitTools ==
    /\ args = NoArgs
    /\ returned = NoReturn
    /\ ramlDocument = NoArgs
    /\ decoderCalls = 0
    /\ written = <<>>
    /\ registries = <<>>
    /\ runs = <<>>

Init ==
    /\ heap = <<>>
    /\ modelMap = <<>>
    /\ stack = <<>>
    /\ retval = NoAddr
    /\ phase = "idle"
    /\ path = <<>>
    /\ error = NoError
    /\ calls = <<>>
    /\ steps = 0
    /\ parsed = <<>>
    /\ output = NoOutput
    /\ document = <<>>
    /\ endpoints = <<>>
    /\ responseMap = NoResponseMap
    /\ pending = <<>>
    /\ responses = <<>>
    /\ InitTools

Next ==
    \/ \E d \in Definitions : ParseRoot(d)
    \/ \E i \in 1..MaxNodes, s \in {"p", "q", "addl", "items"}, d \in NestedDefinitions :
           ParseChild(i, s, d)
    \/ Call
    \/ EnterPrimitive
    \/ EnterArray
    \/ ItemsReturn
    \/ EnterObjectKnown
    \/ EnterObjectNew
    \/ PropCall
    \/ PropReturn
    \/ AddlCall
    \/ AddlReturn
    \/ ObjectReturn
    \/ EnterUnhandled

Spec == Init /\ [][Next]_vars

(***************************************************************************)
(* The TypeScript renderer (src/src/renderers/typescript-renderer.ts).     *)
(* A text is the sequence of the words it is made of.                      *)
(***************************************************************************)
\* the ids of the models as texts, split at their colons:
\* "urn:jsonschema:com:gentics:User" and "urn:jsonschema:com:node"
IdSegments(id) ==
    IF id = "X" THEN <<"urn", "jsonschema", "com", "gentics", "User">>
    ELSE <<"urn", "jsonschema", "com", "node">>

\* the words that match [a-z]+
LowerCaseWords == {"urn", "jsonschema", "com", "gentics", "node"}

\* the words that are made of the characters [A-Za-z0-9$_] and start with
\* none of the digits
IdentifierWords ==
    LowerCaseWords \cup {"User", "I", "Model", "Integer",
                         "any", "boolean", "number", "string"}

\* the short names of the models in the order of the < of JavaScript
\* strings (code units: an upper-case letter comes before a lower-case one)
WordsInOrder == <<"User", "node">>

\* the options of the renderer that the model names and the endpoint list
\* depend on; sortInterfaces and sortKeys stay at their default, true
RenderOptions ==
    {[addEndpointList |-> FALSE, interfacePrefix |-> "", interfaceSuffix |-> "",
      emitIntegerAs |-> "Integer"],
     [addEndpointList |-> TRUE, interfacePrefix |-> "", interfaceSuffix |-> "",
      emitIntegerAs |-> "Integer"],
     [addEndpointList |-> TRUE, interfacePrefix |-> "I", interfaceSuffix |-> "Model",
      emitIntegerAs |-> "number"]}

\* ([a-z]+:)* takes the leading words that are lower-case and end in a colon
RECURSIVE StripPackages(_)
StripPackages(segs) ==
    IF Len(segs) > 1 /\ Head(segs) \in LowerCaseWords
    THEN StripPackages(Tail(segs))
    ELSE segs

\* schemaRef.replace(/^urn:jsonschema:([a-z]+:)*/, '')
ShortName(segs) ==
    IF Len(segs) >= 3 /\ segs[1] = "urn" /\ segs[2] = "jsonschema"
    THEN StripPackages(SubSeq(segs, 3, Len(segs)))
    ELSE segs

\* the words of a text that is the segments joined by colons
RECURSIVE JoinColons(_)
JoinColons(segs) ==
    IF Len(segs) <= 1 THEN segs
    ELSE <<Head(segs), ":">> \o JoinColons(Tail(segs))

\* formatModelName: interfacePrefix + shortName + interfaceSuffix
formatModelName(opts, shortName) ==
    <<opts.interfacePrefix>> \o shortName \o <<opts.interfaceSuffix>>

generateModelName(opts, schemaRef) ==
    formatModelName(opts, JoinColons(ShortName(IdSegments(schemaRef))))

\* /^[A-Za-z$_][A-Za-z0-9$_]*$/.test(text)
IsIdentifier(text) ==
    /\ \A i \in 1..Len(text) : text[i] \in IdentifierWords \cup {""}
    /\ \E i \in 1..Len(text) : text[i] # ""

\* the rendering of a type threw
RenderError(message) == <<"throw", message>>

IsRenderError(text) == text # <<>> /\ text[1] = "throw"

\* renderTypescriptPropertyDefinition(prop). Every Object definition has a
\* properties map (interfaces.ts:51), with no entry when it has no "p".
RECURSIVE renderTypescriptPropertyDefinition(_, _, _)
renderTypescriptPropertyDefinition(h, opts, a) ==
    LET prop == h[a]
    IN CASE prop.type \in {"any", "boolean", "number", "string"} -> <<prop.type>>
         [] prop.type = "integer" -> <<opts.emitIntegerAs>>
         [] prop.type = "array" ->
              IF "items" \notin DOMAIN prop.kids THEN RenderError("TypeError")
              ELSE LET arrayType ==
                           renderTypescriptPropertyDefinition(h, opts, prop.kids["items"])
                   IN IF IsRenderError(arrayType) THEN arrayType
                      ELSE IF IsIdentifier(arrayType) THEN arrayType \o <<"[]">>
                      ELSE <<"Array<">> \o arrayType \o <<">">>
         [] prop.type = "object" ->
              IF prop.id # NoId \/ prop.ref # NoId
              THEN generateModelName(opts, IF prop.id # NoId THEN prop.id ELSE prop.ref)
              ELSE IF "addl" \in DOMAIN prop.kids
              THEN LET hashType ==
                           renderTypescriptPropertyDefinition(h, opts, prop.kids["addl"])
                   IN IF IsRenderError(hashType) THEN hashType
                      ELSE <<"{ [key: string]: ">> \o hashType \o <<" }">>
              ELSE IF PropertyKeys(prop) = <<>> THEN <<"{ }">>
              ELSE RenderError("object property without id or additionalProperties")
         [] OTHER -> RenderError("unhandled case")

\* renderTypescriptProperties(props): one field per key, the keys sorted;
\* "required" stands for the separator, ': ' when prop.required and '?: '
\* when not
renderTypescriptProperties(h, opts, a) ==
    LET keys == PropertyKeys(h[a])
    IN [i \in 1..Len(keys) |->
           [key |-> keys[i],
            required |-> h[h[a].kids[keys[i]]].required,
            type |-> renderTypescriptPropertyDefinition(h, opts, h[a].kids[keys[i]])]]

\* the position of the model's short name in the order of the names
NameRank(id) ==
    LET short == ShortName(IdSegments(id))
    IN CHOOSE i \in 1..Len(WordsInOrder) : WordsInOrder[i] = Head(short)

\* Object.keys(models), sorted by the generated name
SortedModelNames(mm) ==
    LET keys == DOMAIN mm
        Before(k) == {l \in keys : NameRank(l) < NameRank(k)}
    IN [i \in 1..Cardinality(keys) |->
           CHOOSE k \in keys : Cardinality(Before(k)) = i - 1]

\* generateInterfaces: one "export interface" per key of the registry
generateInterfaces(h, mm, opts) ==
    LET modelNames == SortedModelNames(mm)
    IN [i \in 1..Len(modelNames) |->
           [ref |-> modelNames[i],
            name |-> generateModelName(opts, modelNames[i]),
            fields |-> renderTypescriptProperties(h, opts, mm[modelNames[i]])]]

\* generateEndpointList, formatEndpointInterface: the body type of the
\* request of every endpoint
generateEndpointList(h, cs, opts) ==
    [i \in 1..Len(cs) |-> renderTypescriptPropertyDefinition(h, opts, cs[i].ret)]

\* renderAll(raml)
renderAll(h, mm, cs, opts) ==
    LET interfaces == generateInterfaces(h, mm, opts)
        bodies == IF opts.addEndpointList THEN generateEndpointList(h, cs, opts)
                  ELSE <<>>
        threw == \/ \E i \in 1..Len(bodies) : IsRenderError(bodies[i])
                 \/ \E i \in 1..Len(interfaces) :
                       \E j \in 1..Len(interfaces[i].fields) :
                           IsRenderError(interfaces[i].fields[j].type)
    IN IF threw THEN [rendered |-> TRUE, threw |-> TRUE, options |-> opts]
       ELSE [rendered |-> TRUE, threw |-> FALSE, options |-> opts,
             empty |-> ~opts.addEndpointList /\ interfaces = <<>>,
             bodies |-> bodies, interfaces |-> interfaces]

(***************************************************************************)
(* A document is parsed body by body and then rendered.                    *)
(***************************************************************************)
\* traverseRequest: parsedRequest.requestBody.schema =
\*     await this.normalizeSchema(schema, models), from call to return
NormalizeRequestBody ==
    /\ phase = "input"
    /\ LET r == NormalizeSchema(heap, modelMap, path[1])
       IN /\ heap' = r.heap
          /\ modelMap' = r.modelMap
          /\ retval' = r.retval
          /\ error' = r.error
          /\ phase' = IF r.error # NoError THEN "failed" ELSE "done"
          /\ calls' = IF r.error = NoError
                      THEN Append(calls, [root |-> path[1], ret |-> r.retval])
                      ELSE calls
    /\ path' = <<>>
    /\ UNCHANGED <<stack, steps, parsed>>
    /\ UNCHANGED docVars
    /\ UNCHANGED toolVars

\* renderer.renderAll(parsedRaml) on the result of the parser
RenderAll(opts) ==
    /\ phase \in {"idle", "done"}
    /\ phase' = "rendered"
    /\ output' = renderAll(heap, modelMap, calls, opts)
    /\ UNCHANGED <<schemaVars, error, uriVars, responseVars>>
    /\ UNCHANGED toolVars

NextRender ==
    \/ \E d \in Definitions : ParseRoot(d)
    \/ \E i \in 1..MaxNodes, s \in {"p", "q", "addl", "items"}, d \in NestedDefinitions :
           ParseChild(i, s, d)
    \/ NormalizeRequestBody
    \/ \E opts \in RenderOptions : RenderAll(opts)

SpecRender == Init /\ [][NextRender]_vars

(***************************************************************************)
(* Endpoint discovery and the URI parameters of parent paths               *)
(* (parser.ts:46-106). A URL is the sequence of its characters.            *)
(***************************************************************************)
\* the longest path name of the documents of SpecUrl
MaxPathLen == 4

\* the number of endpoints of the documents of SpecUrl
MaxUrlEndpoints == 1

\* the number of endpoints of the documents of SpecUri
MaxEndpoints == 3

\* the characters of the URLs that match [a-zA-Z0-9]
AlphaNumerics == {"a", "p", "q"}

\* the path names made of "/" and "a" (keys of the RAML that start with '/')
UrlPaths ==
    {t \in UNION {[1..n -> {"/", "a"}] : n \in 1..MaxPathLen} : t[1] = "/"}

\* "/a", "/{p}", "/{q}" and "/{-}"
SegmentA == <<"/", "a">>
SegmentP == <<"/", "{", "p", "}">>
SegmentQ == <<"/", "{", "q", "}">>
SegmentDash == <<"/", "{", "-", "}">>

\* the (pathName, childPathName) pairs of the documents of SpecUri
Routes ==
    {<<<<"/">>, SegmentA>>,
     <<<<"/">>, SegmentP>>,
     <<SegmentP, <<"/">>>>,
     <<SegmentP, SegmentA>>,
     <<SegmentP, SegmentQ>>,
     <<SegmentP \o SegmentQ, SegmentA>>,
     <<<<"/">>, SegmentDash>>}

\* childPath.uriParameters: absent, or a map from a name to a Parameter
\* ("d1" and "d2" are two different Parameter objects)
NoParameters == [defined |-> FALSE, map |-> <<>>]

Parameters(map) == [defined |-> TRUE, map |-> map]

UriParameterMaps ==
    {NoParameters,
     Parameters(<<"p">> :> "d1"),
     Parameters(<<"q">> :> "d2"),
     Parameters((<<"p">> :> "d1") @@ (<<"q">> :> "d1"))}

\* text.replace(/\/+/, '/'): the regular expression has no g flag, so the
\* first run of slashes is replaced and the rest of the text is kept
ReplaceFirstSlashRun(text) ==
    IF \A i \in 1..Len(text) : text[i] # "/" THEN text
    ELSE LET i == CHOOSE k \in 1..Len(text) :
                      text[k] = "/" /\ \A l \in 1..(k - 1) : text[l] # "/"
             j == CHOOSE k \in i..Len(text) :
                      /\ \A l \in i..k : text[l] = "/"
                      /\ k = Len(text) \/ text[k + 1] # "/"
         IN SubSeq(text, 1, i) \o SubSeq(text, j + 1, Len(text))

\* const url = (pathName + (childPathName === '/' ? '' : childPathName))
\*                 .replace(/\/+/, '/')
EndpointUrl(pathName, childPathName) ==
    ReplaceFirstSlashRun(
        pathName \o (IF childPathName = <<"/">> THEN <<>> ELSE childPathName))

\* /\{[^\}]+\}/.test(url)
HasParameter(url) ==
    \E i, j \in 1..Len(url) :
        /\ i + 1 < j
        /\ url[i] = "{"
        /\ url[j] = "}"
        /\ \A k \in (i + 1)..(j - 1) : url[k] # "}"

\* the matches of /\{([a-zA-Z0-9]+)\}/g in url, as [from, to]
ParameterMatchSet(url) ==
    {m \in (1..Len(url)) \X (1..Len(url)) :
        /\ m[1] + 1 < m[2]
        /\ url[m[1]] = "{"
        /\ url[m[2]] = "}"
        /\ \A k \in (m[1] + 1)..(m[2] - 1) : url[k] \in AlphaNumerics}

\* the matches in the order rx.exec finds them: paramName = matches[1],
\* urlPart = input.substr(0, index + matches[0].length)
ParameterMatches(url) ==
    LET ms == ParameterMatchSet(url)
        Nth(i) == CHOOSE m \in ms : Cardinality({o \in ms : o[1] < m[1]}) = i - 1
    IN [i \in 1..Cardinality(ms) |->
           [paramName |-> SubSeq(url, Nth(i)[1] + 1, Nth(i)[2] - 1),
            urlPart |-> SubSeq(url, 1, Nth(i)[2])]]

\* urlParameters && urlParameters[paramName]
Declares(urlParameters, paramName) ==
    urlParameters.defined /\ paramName \in DOMAIN urlParameters.map

\* a merge in which the declarations of the ancestor win
AssignParentLast(parentParameters, own) ==
    Parameters(parentParameters.map @@ own.map)

\* Object.assign({}, parentEndpoint.urlParameters, endpoint.urlParameters || {})
AssignParameters(parentParameters, own) ==
    Parameters(own.map @@ parentParameters.map)

\* endpointsByUrl[url]: the last endpoint with that URL, if the URL has a
\* "{parameter}"; NoAddr when there is none
EndpointByUrl(eps, url) ==
    LET is == {i \in 1..Len(eps) : eps[i].url = url /\ HasParameter(url)}
    IN IF is = {} THEN NoAddr ELSE CHOOSE i \in is : \A k \in is : k <= i

\* endpoints.slice().sort((a, b) => a.url.length - b.url.length): the
\* indexes of the endpoints, those of equal length in their order
SortedByUrlLength(eps) ==
    LET Before(i) == {k \in 1..Len(eps) :
                        \/ Len(eps[k].url) < Len(eps[i].url)
                        \/ Len(eps[k].url) = Len(eps[i].url) /\ k < i}
    IN [n \in 1..Len(eps) |->
           CHOOSE i \in 1..Len(eps) : Cardinality(Before(i)) = n - 1]

\* the while loop over the matches of one endpoint
RECURSIVE AddParametersOf(_, _, _)
AddParametersOf(eps, e, matches) ==
    IF matches = <<>> THEN [endpoints |-> eps, error |-> NoError]
    ELSE LET paramName == Head(matches).paramName
             parentEndpoint == EndpointByUrl(eps, Head(matches).urlPart)
         IN IF Declares(eps[e].urlParameters, paramName)
            THEN AddParametersOf(eps, e, Tail(matches))
            ELSE IF /\ parentEndpoint # NoAddr
                    /\ Declares(eps[parentEndpoint].urlParameters, paramName)
            THEN AddParametersOf(
                     [eps EXCEPT ![e].urlParameters =
                          AssignParameters(eps[parentEndpoint].urlParameters, @)],
                     e, Tail(matches))
            ELSE [endpoints |-> eps,
                  error |-> [kind |-> "No definition of URL parameter",
                             value |-> paramName, shown |-> eps[e].url]]

\* the for loop over the sorted endpoints
RECURSIVE AddParametersIn(_, _)
AddParametersIn(eps, order) ==
    IF order = <<>> THEN [endpoints |-> eps, error |-> NoError]
    ELSE LET r == AddParametersOf(eps, Head(order),
                                  ParameterMatches(eps[Head(order)].url))
         IN IF r.error.kind # "none" THEN r
            ELSE AddParametersIn(r.endpoints, Tail(order))

addMissingUriParameters(eps) == AddParametersIn(eps, SortedByUrlLength(eps))

\* the method keys of a child path in the order of the document, and the
\* method of the endpoint, methodName.toUpperCase()
MethodNames == <<"get", "post">>

UpperCase(methodName) == IF methodName = "get" THEN "GET" ELSE "POST"

\* The loops of findModelsAndEndpoints visit the paths, the child paths of
\* a path and the methods of a child path one after the other: a key occurs
\* once in its object, and the methods of one child path share its
\* uriParameters.
FollowsDocumentOrder(pathName, childPathName, methodName, uriParameters) ==
    LET n == Len(document)
        SamePath(i) == document[i].pathName = pathName
        SameChild(i) == SamePath(i) /\ document[i].childPathName = childPathName
        used == Cardinality({i \in 1..n : SameChild(i)})
    IN IF n > 0 /\ SameChild(n)
       THEN /\ uriParameters = document[n].uriParameters
            /\ used < Len(MethodNames)
            /\ methodName = MethodNames[used + 1]
       ELSE /\ methodName = MethodNames[1]
            /\ used = 0
            /\ (n > 0 /\ SamePath(n)) \/ \A i \in 1..n : ~SamePath(i)

\* One round of the loops of findModelsAndEndpoints for a method that has
\* no body and no responses: traverseRequest builds the endpoint, which is
\* pushed.
DiscoverEndpoint(pathName, childPathName, methodName, uriParameters) ==
    /\ phase = "idle"
    /\ FollowsDocumentOrder(pathName, childPathName, methodName, uriParameters)
    /\ document' = Append(document, [pathName |-> pathName,
                                     childPathName |-> childPathName,
                                     methodName |-> methodName,
                                     uriParameters |-> uriParameters])
    /\ endpoints' = Append(endpoints,
                           [url |-> EndpointUrl(pathName, childPathName),
                            method |-> UpperCase(methodName),
                            urlParameters |-> uriParameters])
    /\ UNCHANGED <<schemaVars, phase, error, output, responseVars>>
    /\ UNCHANGED toolVars

\* this.addMissingUriParameters(endpoints); return { endpoints, models }
AddMissingUriParameters ==
    /\ phase = "idle"
    /\ LET r == addMissingUriParameters(endpoints)
       IN /\ endpoints' = r.endpoints
          /\ error' = r.error
          /\ phase' = IF r.error.kind # "none" THEN "failed" ELSE "returned"
    /\ UNCHANGED <<schemaVars, document, output, responseVars>>
    /\ UNCHANGED toolVars

NextUrl ==
    \/ \E pathName \in UrlPaths, childPathName \in UrlPaths :
           /\ Len(endpoints) < MaxUrlEndpoints
           /\ DiscoverEndpoint(pathName, childPathName, MethodNames[1], NoParameters)
    \/ AddMissingUriParameters

SpecUrl == Init /\ [][NextUrl]_vars

NextUri ==
    \/ \E r \in Routes, uriParameters \in UriParameterMaps :
           \E methodName \in SeqRange(MethodNames) :
               /\ Len(endpoints) < MaxEndpoints
               /\ DiscoverEndpoint(r[1], r[2], methodName, uriParameters)
    \/ AddMissingUriParameters

SpecUri == Init /\ [][NextUri]_vars

(***************************************************************************)
(* traverseResponseSchemas (parser.ts:157-181) and the responses of an     *)
(* endpoint in the endpoint list (typescript-renderer.ts:185-225).         *)
(***************************************************************************)
\* the number of status codes of a response map
MaxResponses == 3

\* the keys of a response map: the decimal texts of status codes
Digits == <<"0", "1", "2", "3", "4", "5", "6", "7", "8", "9">>

StatusCodeKeys ==
    {<<"2", "0", "0">>, <<"2", "0", "4">>, <<"4", "0", "4">>, <<"5", "0", "0">>}

DigitValue(c) == (CHOOSE i \in 1..10 : Digits[i] = c) - 1

\* Number(responseCode)
RECURSIVE ToNumber(_)
ToNumber(key) ==
    IF key = <<>> THEN 0
    ELSE 10 * ToNumber(SubSeq(key, 1, Len(key) - 1)) + DigitValue(key[Len(key)])

\* the key of an object that a number is used as: its decimal text
RECURSIVE ToKey(_)
ToKey(n) ==
    IF n < 10 THEN <<Digits[n + 1]>>
    ELSE ToKey(n \div 10) \o <<Digits[(n % 10) + 1]>>

\* Object.keys of an object whose keys are integers: in ascending order
KeysInOrder(map) ==
    LET keys == DOMAIN map
        Before(k) == {l \in keys : ToNumber(l) < ToNumber(k)}
    IN [i \in 1..Cardinality(keys) |->
           CHOOSE k \in keys : Cardinality(Before(k)) = i - 1]

\* an absent example or schema text
NoText == [present |-> FALSE]

\* the schema texts of the responses: each holds one definition
ResponseSchemas ==
    {Node("string", NoId, NoId, NoKids),
     Node("object", "X", NoId, NoKids),
     Node("object", NoId, "X", NoKids),
     Node(UnknownType, NoId, NoId, NoKids)}

\* the responses of the RAML: with no body, or with a body of
\* application/json that has an example, a schema or both
ResponseBodies ==
    {[present |-> FALSE, example |-> NoText, schema |-> NoText]}
    \cup {[present |-> TRUE, example |-> [present |-> TRUE, text |-> "e"],
           schema |-> NoText]}
    \cup {[present |-> TRUE, example |-> e, schema |-> [present |-> TRUE, text |-> d]] :
              e \in {NoText, [present |-> TRUE, text |-> "e"]}, d \in ResponseSchemas}

\* a response without responseBodySchema
NoSchema == NoAddr

TraverseSt ==
    [heap |-> heap, modelMap |-> modelMap, parsed |-> parsed,
     responses |-> responses, error |-> error]

\* one round of the loop with a body that is parsed without looking whether
\* the response has one
TraverseResponseUnguarded(st, responseCode) ==
    LET responseYaml == responseMap.map[ToKey(ToNumber(responseCode))]
    IN IF ~responseYaml.body.present
       THEN [st EXCEPT !.error = [kind |-> "TypeError", value |-> NoAddr,
                                  shown |-> "body"]]
       ELSE [st EXCEPT !.responses =
                 (ToKey(ToNumber(responseCode)) :>
                      [description |-> responseYaml.description,
                       responseBodyExample |-> responseYaml.body.example,
                       responseBodySchema |-> NoSchema]) @@ @]

\* one round of the loop of traverseResponseSchemas
TraverseResponse(st, responseCode) ==
    LET responseYaml == responseMap.map[ToKey(ToNumber(responseCode))]
        responseBody == responseYaml.body
        \* JSON.parse(responseBody.schema)
        schema == Len(st.heap) + 1
        r == NormalizeSchema(Append(st.heap, responseBody.schema.text),
                             st.modelMap, schema)
        result(responseBodySchema) ==
            [description |-> responseYaml.description,
             responseBodyExample |->
                 IF responseBody.present THEN responseBody.example ELSE NoText,
             responseBodySchema |-> responseBodySchema]
        key == ToKey(ToNumber(responseCode))
    IN IF ~(responseBody.present /\ responseBody.schema.present)
       THEN [st EXCEPT !.responses = (key :> result(NoSchema)) @@ @]
       ELSE IF r.error # NoError
       THEN [st EXCEPT !.heap = r.heap, !.modelMap = r.modelMap,
                       !.parsed = (schema :> responseBody.schema.text) @@ @,
                       !.error = r.error]
       ELSE [st EXCEPT !.heap = r.heap, !.modelMap = r.modelMap,
                       !.parsed = (schema :> responseBody.schema.text) @@ @,
                       !.responses = (key :> result(r.retval)) @@ @]

\* formatEndpointInterface: the types of the responses of an endpoint
formatEndpointInterface(h, rs, opts) ==
    LET codes == KeysInOrder(rs)
        response(i) == rs[ToKey(ToNumber(codes[i]))]
        responseType(i) ==
            IF response(i).responseBodySchema # NoSchema
            THEN renderTypescriptPropertyDefinition(
                     h, opts, response(i).responseBodySchema)
            ELSE IF codes[i] = <<"2", "0", "4">> THEN <<"undefined">>
            ELSE <<"undefined /* TODO: This is not typed in the RAML */">>
        responsesWithMissingType ==
            Cardinality({i \in 1..Len(codes) :
                /\ response(i).responseBodySchema = NoSchema
                /\ codes[i] # <<"2", "0", "4">>})
        \* allResponseTypes: every type once, where it occurs first
        firsts == {i \in 1..Len(codes) :
                     \A k \in 1..(i - 1) : responseType(k) # responseType(i)}
        allResponseTypes ==
            [n \in 1..Cardinality(firsts) |->
                 responseType(CHOOSE i \in firsts :
                                  Cardinality({k \in firsts : k < i}) = n - 1)]
    IN IF \E i \in 1..Len(codes) : IsRenderError(responseType(i))
       THEN [rendered |-> TRUE, threw |-> TRUE, options |-> opts]
       ELSE IF Len(codes) = 0 \/ responsesWithMissingType = Len(allResponseTypes)
       THEN [rendered |-> TRUE, threw |-> FALSE, options |-> opts,
             responseType |-> <<<<"any">>>>,
             responseTypes |-> <<[statusCode |-> <<"2", "0", "0">>,
                                  type |-> <<"any">>]>>]
       ELSE [rendered |-> TRUE, threw |-> FALSE, options |-> opts,
             responseType |-> allResponseTypes,
             responseTypes |-> [i \in 1..Len(codes) |->
                                   [statusCode |-> codes[i], type |-> responseType(i)]]]

\* the RAML document gives the request a response for one more status code
ReadResponse(responseCode, body) ==
    /\ phase = "idle"
    /\ responseCode \notin DOMAIN responseMap.map
    /\ Cardinality(DOMAIN responseMap.map) < MaxResponses
    /\ responseMap' = [defined |-> TRUE,
                       map |-> (responseCode :> [description |-> "d", body |-> body])
                                   @@ responseMap.map]
    /\ UNCHANGED <<schemaVars, phase, error, output, uriVars, pending, responses>>
    /\ UNCHANGED toolVars

\* traverseResponseSchemas(requestSchema.responses, models) is called:
\* Object.keys(responseMap || {})
CallTraverseResponseSchemas ==
    /\ phase = "idle"
    /\ phase' = "traversing"
    /\ pending' = KeysInOrder(responseMap.map)
    /\ UNCHANGED <<schemaVars, error, output, uriVars, responseMap, responses>>
    /\ UNCHANGED toolVars

\* the loop takes the next status code
TraverseNextResponse ==
    /\ phase = "traversing"
    /\ pending # <<>>
    /\ LET r == TraverseResponse(TraverseSt, Head(pending))
       IN /\ heap' = r.heap
          /\ modelMap' = r.modelMap
          /\ parsed' = r.parsed
          /\ responses' = r.responses
          /\ error' = r.error
          /\ phase' = IF r.error # NoError THEN "failed" ELSE "traversing"
    /\ pending' = Tail(pending)
    /\ UNCHANGED <<stack, retval, path, calls, steps, output, uriVars, responseMap>>
    /\ UNCHANGED toolVars

\* return responseTypes
ReturnResponses ==
    /\ phase = "traversing"
    /\ pending = <<>>
    /\ phase' = "done"
    /\ UNCHANGED <<schemaVars, error, output, uriVars, responseVars>>
    /\ UNCHANGED toolVars

\* the renderer formats the endpoint that has these responses
FormatEndpointInterface(opts) ==
    /\ phase = "done"
    /\ phase' = "rendered"
    /\ output' = formatEndpointInterface(heap, responses, opts)
    /\ UNCHANGED <<schemaVars, error, uriVars, responseVars>>
    /\ UNCHANGED toolVars

\* the registry is empty, or an earlier request has registered the model X
InitResponses ==
    /\ Init
       \/ /\ heap = <<Node("object", "X", NoId, NoKids)>>
          /\ modelMap = ("X" :> 1)
          /\ parsed = (1 :> Node("object", "X", NoId, NoKids))
          /\ stack = <<>> /\ retval = NoAddr /\ phase = "idle" /\ path = <<>>
          /\ error = NoError /\ calls = <<>> /\ steps = 0 /\ output = NoOutput
          /\ document = <<>> /\ endpoints = <<>>
          /\ responseMap = NoResponseMap /\ pending = <<>> /\ responses = <<>>
          /\ InitTools

NextResponses ==
    \/ \E responseCode \in StatusCodeKeys, body \in ResponseBodies :
           ReadResponse(responseCode, body)
    \/ CallTraverseResponseSchemas
    \/ TraverseNextResponse
    \/ ReturnResponses
    \/ \E opts \in RenderOptions : FormatEndpointInterface(opts)

SpecResponses == InitResponses /\ [][NextResponses]_vars

(***************************************************************************)
(* The entry points: parseRAML (parser.ts:23-72), parseAndGenerate         *)
(* (parse-and-generate.ts:9-16) and CLI.generate (cli.ts:18-40).           *)
(*                                                                         *)
(* The RAML source is a YAML text: a sequence of lines, a line is its      *)
(* indentation, its key and the tokens after the colon. The decoder turns  *)
(* the indentation into nesting and the tokens into JavaScript values.     *)
(***************************************************************************)
\* the longest RAML source, in lines
MaxLines == 5

\* JavaScript values: t is what typeof and Array.isArray tell apart, s the
\* tokens of a string, m the entries of an object in Object.keys order
Value(t, str, m) == [t |-> t, s |-> str, m |-> m]

Undefined == Value("undefined", <<>>, <<>>)
Null == Value("null", <<>>, <<>>)
Number42 == Value("number", <<"42">>, <<>>)
BooleanTrue == Value("boolean", <<"true">>, <<>>)
String(tokens) == Value("string", tokens, <<>>)
EmptyArray == Value("array", <<>>, <<>>)
Object(entries) == Value("object", <<>>, entries)

Entry(key, value) == [key |-> key, value |-> value]

Keys(v) == [i \in 1..Len(v.m) |-> v.m[i].key]

HasKey(v, key) == \E i \in 1..Len(v.m) : v.m[i].key = key

\* v[key], for a key that v has
Get(v, key) == v.m[CHOOSE i \in 1..Len(v.m) : v.m[i].key = key].value

\* the schema texts of the bodies, token by token: a model X, a type tag
\* that is not handled, a model whose property is an inline object (which
\* the renderer rejects), a text that JSON.parse rejects, and a primitive
SchemaTexts ==
    {<<"{", "type", "object", "id", "X", "}">>,
     <<"{", "type", "foo", "}">>,
     <<"{", "type", "object", "id", "X",
            "p", "{", "type", "object", "p", "{", "type", "string", "}", "}", "}">>,
     <<"{", "type", "object", "id", "X">>,
     <<"{", "type", "string", "}">>}

Line(indent, key, value) == [indent |-> indent, key |-> key, value |-> value]

\* the lines a RAML source is made of; "body" stands for the keys
\* body / application/json / schema, whose value is a block scalar
SourceLines ==
    {Line(0, "version", <<"1">>), Line(0, "/a", <<>>), Line(0, "/{p}", <<>>),
     Line(1, "/", <<>>),
     Line(2, "get", <<>>), Line(2, "get", <<"{}">>), Line(2, "uriParameters", <<>>),
     Line(3, "p", <<"d1">>)}
    \cup {Line(3, "body", <<"|">> \o text) : text \in SchemaTexts}

\* a source that is one scalar, and one that ends inside a flow mapping
ScalarLines ==
    {Line(0, "", <<tok>>) : tok \in {"42", "true", "null", "hello", "{"}}

\* the value of the tokens after a colon
ScalarValue(tokens) ==
    CASE tokens = <<"42">> \/ tokens = <<"1">> -> Number42
      [] tokens = <<"true">> -> BooleanTrue
      [] tokens = <<"null">> -> Null
      [] tokens = <<"{}">> -> Object(<<>>)
      [] tokens = <<"[]">> -> EmptyArray
      [] Head(tokens) = "|" -> String(Tail(tokens))
      [] OTHER -> String(tokens)

\* the last line of the block below line 1: the lines that are indented
\* deeper than it
BlockEnd(lines) ==
    CHOOSE j \in 1..Len(lines) :
        /\ \A k \in 2..j : lines[k].indent > lines[1].indent
        /\ j = Len(lines) \/ lines[j + 1].indent <= lines[1].indent

Decoded(value) == [ok |-> TRUE, value |-> value]
YAMLException == [ok |-> FALSE, value |-> Undefined]

\* a block mapping: every line at the indentation of the first is a key,
\* the deeper lines below it are its value; "key:" alone is null; a key that
\* has a scalar and a block, or that occurs twice, is an error
RECURSIVE DecodeBlock(_)
DecodeBlock(lines) ==
    IF lines = <<>> THEN Decoded(Object(<<>>))
    ELSE LET first == lines[1]
             j == BlockEnd(lines)
             below == SubSeq(lines, 2, j)
             rest == DecodeBlock(SubSeq(lines, j + 1, Len(lines)))
             sub == DecodeBlock(below)
             value == IF first.value # <<>> THEN ScalarValue(first.value)
                      ELSE IF below = <<>> THEN Null
                      ELSE sub.value
         IN IF \/ first.value # <<>> /\ below # <<>>
               \/ first.value # <<>> /\ Head(first.value) = "{"
               \/ first.value = <<>> /\ below # <<>> /\ ~sub.ok
               \/ ~rest.ok
               \/ HasKey(rest.value, first.key)
            THEN YAMLException
            ELSE Decoded(Object(<<Entry(first.key, value)>> \o rest.value.m))

\* loadYaml(yaml) (parser.ts:42-44): an empty source is undefined, a source
\* that is one scalar is that scalar, any other source is a block mapping
loadYaml(text) ==
    IF text = <<>> THEN Decoded(Undefined)
    ELSE IF text[1].key = ""
    THEN IF text[1].value = <<"{">> THEN YAMLException
         ELSE Decoded(ScalarValue(text[1].value))
    ELSE DecodeBlock(text)

\* JSON.parse(jsonBody.schema) (parser.ts:128): the members of the object
\* at address a, up to its closing brace; the objects are new and laid out
\* in the heap in document order
SyntaxError == [ok |-> FALSE, heap |-> <<>>, addr |-> NoAddr, rest |-> <<>>]

RECURSIVE ParseMembers(_, _, _)
ParseMembers(h, a, toks) ==
    IF toks = <<>> THEN SyntaxError
    ELSE IF Head(toks) = "}"
    THEN [ok |-> TRUE, heap |-> h, addr |-> a, rest |-> Tail(toks)]
    ELSE IF Len(toks) < 2 THEN SyntaxError
    ELSE IF Head(toks) = "type"
    THEN ParseMembers([h EXCEPT ![a].type = toks[2]], a, Tail(Tail(toks)))
    ELSE IF Head(toks) = "id"
    THEN ParseMembers([h EXCEPT ![a].id = toks[2]], a, Tail(Tail(toks)))
    ELSE IF Head(toks) = "$ref"
    THEN ParseMembers([h EXCEPT ![a].ref = toks[2]], a, Tail(Tail(toks)))
    ELSE IF Head(toks) \in SeqRange(PropKeys) /\ toks[2] = "{"
    THEN LET c == Len(h) + 1
             r == ParseMembers(
                      Append([h EXCEPT ![a].kids = (Head(toks) :> c) @@ @],
                             Node(NoType, NoId, NoId, NoKids)),
                      c, Tail(Tail(toks)))
         IN IF r.ok THEN ParseMembers(r.heap, a, r.rest) ELSE SyntaxError
    ELSE SyntaxError

JSONParse(h, text) ==
    IF text = <<>> \/ Head(text) # "{" THEN SyntaxError
    ELSE LET r == ParseMembers(Append(h, Node(NoType, NoId, NoId, NoKids)),
                               Len(h) + 1, Tail(text))
         IN IF r.ok /\ r.rest = <<>> THEN [r EXCEPT !.addr = Len(h) + 1]
            ELSE SyntaxError

\* Object.keys(value): a TypeError for undefined and null, the keys of an
\* object, and for the other values no key that starts with '/' or names a
\* request method
ObjectKeys(v) ==
    IF v.t \in {"undefined", "null"} THEN [ok |-> FALSE, keys |-> <<>>]
    ELSE [ok |-> TRUE, keys |-> IF v.t = "object" THEN Keys(v) ELSE <<>>]

\* value[key]: undefined for a key the value does not have
GetOrUndefined(v, key) == IF HasKey(v, key) THEN Get(v, key) ELSE Undefined

\* key.startsWith('/')
StartsWithSlash(key) == key \in {"/", "/a", "/{p}"}

\* const requestMethods = ['delete', 'get', 'post', 'patch', 'put']
requestMethods == {"delete", "get", "post", "patch", "put"}

\* the characters of a path name
UrlOf(key) ==
    CASE key = "/" -> <<"/">>
      [] key = "/a" -> SegmentA
      [] key = "/{p}" -> SegmentP

\* childPath.uriParameters as the URL parameter map of the endpoint
UrlParametersOf(v) ==
    IF v.t # "object" THEN NoParameters
    ELSE Parameters([name \in {<<v.m[i].key>> : i \in 1..Len(v.m)} |->
                        Get(v, name[1]).s[1]])

\* what the traversal has built so far, and the error that ended it
Traversal(h, models, eps, err) ==
    [heap |-> h, models |-> models, endpoints |-> eps, error |-> err]

JsError(kind, shown) == [kind |-> kind, value |-> NoAddr, shown |-> shown]

Failed(tr, err) == [tr EXCEPT !.error = err]

\* traverseRequest (parser.ts:108-144) for a request that has no responses,
\* and endpoints.push(parsedRequest)
traverseRequest(tr, requestSchema, methodName, url, urlParams) ==
    IF requestSchema.t \in {"undefined", "null"}
    THEN Failed(tr, JsError("TypeError", "queryParameters"))
    ELSE LET body == GetOrUndefined(requestSchema, "body")
             endpoint == [url |-> url, method |-> UpperCase(methodName),
                          urlParameters |-> urlParams, requestBody |-> NoAddr]
         IN IF body.t # "string"
            THEN [tr EXCEPT !.endpoints = Append(@, endpoint)]
            ELSE LET schema == JSONParse(tr.heap, body.s)
                     n == NormalizeSchema(schema.heap, tr.models, schema.addr)
                 IN IF ~schema.ok THEN Failed(tr, JsError("SyntaxError", "JSON.parse"))
                    ELSE IF n.error.kind # "none" THEN Failed(tr, n.error)
                    ELSE Traversal(n.heap, n.modelMap,
                                   Append(tr.endpoints,
                                          [endpoint EXCEPT !.requestBody = n.retval]),
                                   NoError)

\* for (let methodName of methods)
RECURSIVE TraverseMethods(_, _, _, _, _)
TraverseMethods(tr, pathName, childPathName, childPath, methods) ==
    IF methods = <<>> \/ tr.error.kind # "none" THEN tr
    ELSE TraverseMethods(
             traverseRequest(tr, Get(childPath, Head(methods)), Head(methods),
                             EndpointUrl(UrlOf(pathName), UrlOf(childPathName)),
                             UrlParametersOf(GetOrUndefined(childPath, "uriParameters"))),
             pathName, childPathName, childPath, Tail(methods))

\* for (let childPathName of childPaths)
RECURSIVE TraverseChildPaths(_, _, _, _)
TraverseChildPaths(tr, pathName, pathObject, childPaths) ==
    IF childPaths = <<>> \/ tr.error.kind # "none" THEN tr
    ELSE LET childPath == Get(pathObject, Head(childPaths))
             keys == ObjectKeys(childPath)
             methods == SelectSeq(keys.keys, LAMBDA k : k \in requestMethods)
         IN IF ~keys.ok THEN Failed(tr, JsError("TypeError", "Object.keys"))
            ELSE TraverseChildPaths(
                     TraverseMethods(tr, pathName, Head(childPaths), childPath, methods),
                     pathName, pathObject, Tail(childPaths))

\* for (let pathName of paths)
RECURSIVE TraversePaths(_, _, _)
TraversePaths(tr, apiRaml, paths) ==
    IF paths = <<>> \/ tr.error.kind # "none" THEN tr
    ELSE LET pathObject == Get(apiRaml, Head(paths))
             keys == ObjectKeys(pathObject)
             childPaths == SelectSeq(keys.keys, StartsWithSlash)
         IN IF ~keys.ok THEN Failed(tr, JsError("TypeError", "Object.keys"))
            ELSE TraversePaths(TraverseChildPaths(tr, Head(paths), pathObject, childPaths),
                               apiRaml, Tail(paths))

\* a registry that every traversal shares
SharedModels(rs) == IF rs = <<>> THEN <<>> ELSE rs[Len(rs)]

\* const models = {} (parser.ts:48): a new, empty registry
NewModels(rs) == <<>>

\* findModelsAndEndpoints(apiRaml) (parser.ts:46-72), from the heap h and
\* with the registries rs made so far
findModelsAndEndpoints(h, rs, apiRaml) ==
    LET keys == ObjectKeys(apiRaml)
        start == Traversal(h, NewModels(rs), <<>>, NoError)
        tr == TraversePaths(start, apiRaml, SelectSeq(keys.keys, StartsWithSlash))
        added == addMissingUriParameters(tr.endpoints)
    IN IF ~keys.ok THEN Failed(start, JsError("TypeError", "Object.keys"))
       ELSE IF tr.error.kind # "none" THEN tr
       ELSE IF added.error.kind # "none" THEN Failed(tr, added.error)
       ELSE [tr EXCEPT !.endpoints = added.endpoints]

\* what the entry points leave alone
restVars == <<stack, retval, path, calls, steps, parsed, responseVars, runs>>

\* the result of the traversal, until it is returned or rendered
parseVars == <<heap, modelMap, endpoints, registries>>

\* new TypescriptModelRenderer(): defaultOptions
\* (typescript-renderer.ts:8-23)
DefaultOptions ==
    [addEndpointList |-> FALSE, interfacePrefix |-> "", interfaceSuffix |-> "",
     emitIntegerAs |-> "Integer"]

\* the argument of parseRAML: a string (the source), or another value
TextInput(source) == [text |-> TRUE, source |-> source, value |-> Undefined]
ValueInput(value) == [text |-> FALSE, source |-> <<>>, value |-> value]

\* the request bodies of the endpoints, for the endpoint list
RequestBodies(eps) ==
    LET with == SelectSeq(eps, LAMBDA e : e.requestBody # NoAddr)
    IN [i \in 1..Len(with) |-> [root |-> with[i].requestBody,
                                ret |-> with[i].requestBody]]

\* the RAML source gets one more line
TypeLine(line) ==
    /\ phase = "idle"
    /\ Len(document) < MaxLines
    /\ IF document = <<>> THEN line.indent = 0
       ELSE /\ document[1].key # ""
            /\ line.key # ""
            /\ line.indent <= document[Len(document)].indent + 1
    /\ document' = Append(document, line)
    /\ UNCHANGED <<phase, error, output, args, returned, ramlDocument,
                   decoderCalls, written>>
    /\ UNCHANGED <<parseVars, restVars>>

\* an entry point is called: "parseRAML" with a string or with a value that
\* is no string, "parseAndGenerate" with a string, "generate" with the file
\* or stream that holds the source
CallEntry(called, raml) ==
    /\ phase = "idle"
    /\ called \in {"parseRAML", "parseAndGenerate", "generate"}
    /\ called # "parseRAML" => raml.text
    /\ args' = [called |-> called, raml |-> raml]
    /\ phase' = IF called = "generate" THEN "reading" ELSE "called"
    /\ UNCHANGED <<error, output, document, returned, ramlDocument,
                   decoderCalls, written>>
    /\ UNCHANGED <<parseVars, restVars>>

\* await parseYamlToObject(raml), for a string
ParseYamlToObject ==
    /\ phase = "called"
    /\ args.raml.text
    /\ decoderCalls' = decoderCalls + 1
    /\ LET r == loadYaml(args.raml.source)
       IN IF r.ok
          THEN /\ ramlDocument' = r.value
               /\ phase' = "decoded"
               /\ error' = error
          ELSE /\ ramlDocument' = ramlDocument
               /\ phase' = "failed"
               /\ error' = JsError("YAMLException", "loadYaml")
    /\ UNCHANGED <<output, document, args, returned, written>>
    /\ UNCHANGED <<parseVars, restVars>>

\* typeof raml === 'object' && !!raml: ramlDocument = raml
AcceptObject ==
    /\ phase = "called"
    /\ ~args.raml.text
    /\ args.raml.value.t \in {"object", "array"}
    /\ ramlDocument' = args.raml.value
    /\ phase' = "decoded"
    /\ UNCHANGED <<error, output, document, args, returned, decoderCalls, written>>
    /\ UNCHANGED <<parseVars, restVars>>

\* throw new TypeError('Invalid input: ' + typeof raml)
RejectInput ==
    /\ phase = "called"
    /\ ~args.raml.text
    /\ args.raml.value.t \notin {"object", "array"}
    /\ phase' = "failed"
    /\ error' = JsError("TypeError", "Invalid input")
    /\ UNCHANGED <<output, document, args, returned, ramlDocument,
                   decoderCalls, written>>
    /\ UNCHANGED <<parseVars, restVars>>

\* generate: await readFile(input) or readStreamToEnd(input) gives the
\* source as a string
ReadInput ==
    /\ phase = "reading"
    /\ phase' = "called"
    /\ UNCHANGED <<error, output, document, args, returned, ramlDocument,
                   decoderCalls, written>>
    /\ UNCHANGED <<parseVars, restVars>>

\* the file or stream cannot be read
ReadFails ==
    /\ phase = "reading"
    /\ phase' = "failed"
    /\ error' = JsError("Error", "readFile")
    /\ UNCHANGED <<output, document, args, returned, ramlDocument,
                   decoderCalls, written>>
    /\ UNCHANGED <<parseVars, restVars>>

\* const { models, endpoints } = await this.findModelsAndEndpoints(ramlDocument)
FindModelsAndEndpoints ==
    /\ phase = "decoded"
    /\ LET r == findModelsAndEndpoints(heap, registries, ramlDocument)
       IN IF r.error.kind # "none"
          THEN /\ phase' = "failed"
               /\ error' = r.error
               /\ UNCHANGED parseVars
          ELSE /\ phase' = "parsed"
               /\ error' = error
               /\ heap' = r.heap
               /\ modelMap' = r.models
               /\ endpoints' = r.endpoints
               /\ registries' = Append(registries, r.models)
    /\ UNCHANGED <<output, document, args, returned, ramlDocument,
                   decoderCalls, written>>
    /\ UNCHANGED restVars

\* parseRAML: return { baseUri, endpoints, models, version }
ReturnParsed ==
    /\ phase = "parsed"
    /\ args.called = "parseRAML"
    /\ phase' = "returned"
    /\ returned' = [returned |-> TRUE,
                    baseUri |-> GetOrUndefined(ramlDocument, "baseUri"),
                    endpoints |-> endpoints,
                    models |-> modelMap,
                    version |-> GetOrUndefined(ramlDocument, "version")]
    /\ UNCHANGED <<error, output, document, args, ramlDocument, decoderCalls, written>>
    /\ UNCHANGED <<parseVars, restVars>>

\* a caller that goes on after the renderer has thrown
AfterRenderCaught(out) == "rendered"

\* await renderer.renderAll(raml): an exception ends the caller
AfterRender(out) == IF out.threw THEN "failed" ELSE "rendered"

\* parseAndGenerate, generate: const rendered = await renderer.renderAll(raml)
Render ==
    /\ phase = "parsed"
    /\ args.called \in {"parseAndGenerate", "generate"}
    /\ LET out == renderAll(heap, modelMap, RequestBodies(endpoints), DefaultOptions)
       IN /\ output' = out
          /\ phase' = AfterRender(out)
          /\ error' = IF out.threw THEN JsError("Error", "renderAll") ELSE error
    /\ UNCHANGED <<document, args, returned, ramlDocument, decoderCalls, written>>
    /\ UNCHANGED <<parseVars, restVars>>

\* parseAndGenerate: return rendered
ReturnRendered ==
    /\ phase = "rendered"
    /\ args.called = "parseAndGenerate"
    /\ phase' = "returned"
    /\ returned' = [returned |-> TRUE, rendered |-> output]
    /\ UNCHANGED <<error, output, document, args, ramlDocument, decoderCalls, written>>
    /\ UNCHANGED <<parseVars, restVars>>

\* generate: await writeFile(output, rendered) or writeToStream(output,
\* rendered)
WriteOutput ==
    /\ phase = "rendered"
    /\ args.called = "generate"
    /\ phase' = "written"
    /\ written' = Append(written, output)
    /\ UNCHANGED <<error, output, document, args, returned, ramlDocument, decoderCalls>>
    /\ UNCHANGED <<parseVars, restVars>>

\* the output file or stream cannot be written
WriteFails ==
    /\ phase = "rendered"
    /\ args.called = "generate"
    /\ phase' = "failed"
    /\ error' = JsError("Error", "writeFile")
    /\ UNCHANGED <<output, document, args, returned, ramlDocument,
                   decoderCalls, written>>
    /\ UNCHANGED <<parseVars, restVars>>

\* the values a caller may pass to parseRAML that are no string: what the
\* source decodes to, undefined, null, a number and a boolean
DirectInputs ==
    {Undefined, Null, Number42, BooleanTrue}
    \cup {v \in {loadYaml(document).value} : loadYaml(document).ok /\ v.t # "string"}

NextEntry ==
    \/ \E line \in SourceLines \cup ScalarLines : TypeLine(line)
    \/ \E called \in {"parseRAML", "parseAndGenerate", "generate"} :
           CallEntry(called, TextInput(document))
    \/ \E v \in DirectInputs : CallEntry("parseRAML", ValueInput(v))
    \/ ReadInput
    \/ ReadFails
    \/ ParseYamlToObject
    \/ AcceptObject
    \/ RejectInput
    \/ FindModelsAndEndpoints
    \/ ReturnParsed
    \/ Render
    \/ ReturnRendered
    \/ WriteOutput
    \/ WriteFails

SpecEntry == Init /\ [][NextEntry]_vars

(***************************************************************************)
(* Several parseRAML calls on one parser: every call of                    *)
(* findModelsAndEndpoints creates its registry (parser.ts:48) and hands it *)
(* to the normalizer. A run is the normalizer at work for one call; the    *)
(* runs take their steps in any order, the heap of objects is one.         *)
(***************************************************************************)
\* the number of parseRAML calls
MaxRuns == 2

\* a run: the index of its registry, the schema it was called with, its
\* stack, and how it has ended
Run(models, root) ==
    [models |-> models, root |-> root, stack |-> <<Frame(root)>>,
     retval |-> NoAddr, error |-> NoError]

\* the normalizer's state as run i sees it
RunSt(i) ==
    [heap |-> heap, modelMap |-> registries[runs[i].models], stack |-> runs[i].stack,
     retval |-> runs[i].retval, error |-> runs[i].error]

\* a parseRAML call reaches the schema that was parsed: it has its own
\* registry and calls normalizeSchema(schema, models)
StartRun ==
    /\ phase = "input"
    /\ Len(runs) < MaxRuns
    /\ registries' = Append(registries, NewModels(registries))
    /\ runs' = Append(runs, Run(Len(registries) + 1, path[1]))
    /\ phase' = "idle"
    /\ path' = <<>>
    /\ UNCHANGED <<heap, modelMap, stack, retval, error, calls, steps, parsed>>
    /\ UNCHANGED <<docVars, args, returned, ramlDocument, decoderCalls, written>>

\* run i goes on to its next call, return or await; JSON.parse and the call
\* of normalizeSchema that follows it are synchronous, so no run takes a step
\* while a text is being parsed
StepRun(i) ==
    /\ phase = "idle"
    /\ i \in 1..Len(runs)
    /\ runs[i].stack # <<>>
    /\ LET r == NormalizeStep(RunSt(i))
       IN /\ heap' = r.heap
          /\ registries' = [registries EXCEPT ![runs[i].models] = r.modelMap]
          /\ runs' = [runs EXCEPT ![i].stack = r.stack,
                                  ![i].retval = r.retval,
                                  ![i].error = r.error]
    /\ UNCHANGED <<modelMap, stack, retval, phase, path, error, calls, steps, parsed>>
    /\ UNCHANGED <<docVars, args, returned, ramlDocument, decoderCalls, written>>

\* the definitions of the documents of the runs: a primitive, and Objects
\* that carry an id, a $ref or neither
RunDefinitions ==
    {d \in NestedDefinitions :
        \/ d.type = "string"
        \/ d.type = "object" /\ (d.id = NoId \/ d.ref = NoId)}

NextRuns ==
    \/ \E d \in RunDefinitions : ParseRoot(d)
    \/ \E i \in 1..MaxNodes, s \in {"p", "q", "addl"}, d \in RunDefinitions :
           ParseChild(i, s, d)
    \/ StartRun
    \/ \E i \in 1..MaxRuns : StepRun(i)

SpecRuns == Init /\ [][NextRuns]_vars

(***************************************************************************)
(* The claims about normalizeSchema and the registry.                      *)
(***************************************************************************)
Top == stack[Len(stack)]
TopNode == heap[Top.node]
Entering == phase = "running" /\ stack # <<>> /\ Top.pc = "entry"

\* C1: across the normalizeSchema calls that share one registry, a key once
\* present is never removed and the instance stored under it is never
\* replaced, whatever combination of id and $ref a definition carries.
C1_RegistryOnlyGrows ==
    [][\A k \in DOMAIN modelMap :
          k \in DOMAIN modelMap' /\ modelMap'[k] = modelMap[k]]_vars

\* the first half of C2: a call on an Object whose lookup key is a key of
\* the registry returns the stored instance and changes nothing
ReturnsStoredInstance ==
    (Entering /\ TopNode.type = "object" /\ LookupKey(TopNode) \in DOMAIN modelMap)
        => /\ retval' = modelMap[LookupKey(TopNode)]
           /\ modelMap' = modelMap
           /\ heap' = heap
           /\ error' = NoError

\* the second half of C2: two bodies of one parse that carry the same id
\* both hold the one instance the registry stores under that id
BodiesShareStoredInstance ==
    \A i, j \in 1..Len(calls) :
        LET a == heap[calls[i].root]
            b == heap[calls[j].root]
        IN (i # j /\ a.type = "object" /\ b.type = "object"
                  /\ a.id # NoId /\ a.id = b.id)
            => /\ a.id \in DOMAIN modelMap
               /\ calls[i].ret = modelMap[a.id]
               /\ calls[j].ret = modelMap[a.id]

\* C2: normalizeSchema on an Object whose lookup key is already a key of
\* the registry returns the very instance stored there and leaves the
\* registry unchanged; consequently two endpoints of one parse whose body
\* schemas carry the same id both end up holding the one instance stored in
\* the registry.
C2_KnownModelIsShared ==
    [][ReturnsStoredInstance /\ BodiesShareStoredInstance']_vars

\* an Object with an id is in the registry while its properties are visited
RegisteredBeforeVisit ==
    \A i \in 1..Len(stack) :
        LET n == heap[stack[i].node]
        IN (stack[i].pc # "entry" /\ n.type = "object" /\ n.id # NoId)
            => n.id \in DOMAIN modelMap

\* a reference to a model whose properties are being visited is not
\* traversed again: it resolves to the stored instance
NestedReferenceResolves ==
    (Entering /\ TopNode.type = "object")
        => \A i \in 1..(Len(stack) - 1) :
              LET n == heap[stack[i].node]
              IN (n.type = "object" /\ n.id # NoId /\ LookupKey(TopNode) = n.id)
                  => StepKind(St) = "EnterObjectKnown"

\* C3: normalizeSchema terminates on every finite schema, self-referential
\* and mutually referential models included: a call takes fewer than four
\* steps per definition, and an Object with an id is stored in the registry
\* before any of its properties is visited, so that a nested reference to it
\* resolves to the stored instance.
C3_NormalizeTerminates ==
    phase = "running"
        => /\ stack # <<>>
           /\ steps < 4 * Len(heap)
           /\ Len(stack) <= Len(heap)
           /\ RegisteredBeforeVisit
           /\ NestedReferenceResolves

\* a model X whose property is a model Y whose property refers back to X:
\* after the call, the two stored instances point at each other
C3_Witness ==
    /\ phase = "done"
    /\ \E a, b \in 1..Len(heap) :
          /\ a # b
          /\ DOMAIN modelMap = {"X", "Y"}
          /\ modelMap["X"] = a /\ modelMap["Y"] = b
          /\ heap[a].kids = ("p" :> b)
          /\ heap[b].kids = ("p" :> a)
          /\ retval = a

\* C5: for every primitive kind normalizeSchema returns its argument
\* unchanged and leaves the registry exactly as it was.
C5_PrimitiveIsIdentity ==
    [][(Entering /\ TopNode.type \in PrimitiveTypes)
          => /\ retval' = Top.node
             /\ heap' = heap
             /\ modelMap' = modelMap
             /\ error' = NoError
             /\ stack' = SubSeq(stack, 1, Len(stack) - 1)]_vars

\* an 'integer' and a 'number' were normalized as bodies of their own while
\* the registry held a model
C5_Witness ==
    /\ phase = "done"
    /\ modelMap # <<>>
    /\ \E i, j \in 1..Len(calls) :
          /\ heap[calls[i].root].type = "integer" /\ calls[i].ret = calls[i].root
          /\ heap[calls[j].root].type = "number" /\ calls[j].ret = calls[j].root

\* C6: normalizeSchema given a definition whose type tag is none of the
\* seven known ones (a missing tag included), at any nesting depth, fails
\* with an unhandled-case error that carries the offending value; it never
\* returns a value for such a definition and the parse fails as a whole.
C6_UnknownTypeFails ==
    [][/\ (Entering /\ TopNode.type \notin KnownTypes)
            => /\ phase' = "failed"
               /\ error' = [kind |-> "unhandledCase", value |-> Top.node,
                                shown |-> TopNode.type]
               /\ stack' = <<>>
               /\ calls' = calls
               /\ retval' = retval
       /\ phase # "failed"
       /\ retval' # NoAddr => heap'[retval'].type \in KnownTypes]_vars

\* the item of an array has neither a type nor a $ref, and the call failed
\* on it
C6_Witness ==
    /\ phase = "failed"
    /\ error.kind = "unhandledCase"
    /\ error.shown = NoType
    /\ heap[error.value].ref = NoId
    /\ \E a \in 1..Len(heap) :
          /\ heap[a].type = "array"
          /\ "items" \in DOMAIN heap[a].kids
          /\ heap[a].kids["items"] = error.value

(***************************************************************************)
(* The claims about the rendered models.                                   *)
(***************************************************************************)
\* definition n names the model X, by its id or by its $ref
NamesModel(n, X) == n.type \in {"object", NoType} /\ X \in Mentions(n)

\* the places of the document that name the model X
DocumentReferences(X) == {a \in DOMAIN parsed : NamesModel(parsed[a], X)}

DefinedInDocument(X) ==
    \E a \in DOMAIN parsed : parsed[a].type = "object" /\ parsed[a].id = X

RECURSIVE ReachableFrom(_, _)
ReachableFrom(h, S) ==
    LET T == S \cup UNION {{h[a].kids[s] : s \in DOMAIN h[a].kids} : a \in S}
    IN IF T = S THEN S ELSE ReachableFrom(h, T)

\* the definitions that the parsed document (registry and bodies) holds
OutputDefinitions ==
    ReachableFrom(heap, {modelMap[k] : k \in DOMAIN modelMap}
                          \cup {calls[i].ret : i \in DOMAIN calls})

\* C4: when the rendering succeeds, a model X that the document defines and
\* names two or more times (by id or by $ref) has exactly one declaration,
\* and every place that names X (a request body, a property, the items of
\* an array, additionalProperties) renders as the name of that declaration,
\* which is generateModelName of X under the options.
C4_OneDeclarationOneName ==
    (phase = "rendered" /\ ~output.threw) =>
        \A X \in ModelIds :
            (DefinedInDocument(X) /\ Cardinality(DocumentReferences(X)) >= 2) =>
                LET name == generateModelName(output.options, X)
                IN /\ Cardinality({i \in DOMAIN output.interfaces :
                                     output.interfaces[i].name = name}) = 1
                   /\ \A i \in DOMAIN output.bodies :
                          NamesModel(parsed[calls[i].root], X) =>
                              output.bodies[i] = name
                   /\ \A a \in DOMAIN parsed \cap OutputDefinitions :
                          \A s \in DOMAIN parsed[a].kids :
                              NamesModel(parsed[parsed[a].kids[s]], X) =>
                                  renderTypescriptPropertyDefinition(
                                      heap, output.options, heap[a].kids[s]) = name

\* the same for the documents in which no definition carries an id and a
\* different $ref
NoAliasWithOwnId ==
    \A a \in DOMAIN parsed :
        parsed[a].id = NoId \/ parsed[a].ref = NoId \/ parsed[a].id = parsed[a].ref

C4_WithoutAliasWithOwnId == NoAliasWithOwnId => C4_OneDeclarationOneName

(***************************************************************************)
(* The claims about the endpoint URLs and their parameters.                *)
(***************************************************************************)
\* what endpoint e declares itself: the uriParameters of its path
OwnParameters(e) == document[e].uriParameters

\* the placeholders of the URL of e that e does not declare itself, as
\* indexes into the matches of its URL
MissingParameters(e) ==
    {n \in DOMAIN ParameterMatches(endpoints[e].url) :
        ~Declares(OwnParameters(e), ParameterMatches(endpoints[e].url)[n].paramName)}

ParentParameters(e, a) ==
    IF Len(endpoints[a].url) < Len(endpoints[e].url)
    THEN endpoints[a].urlParameters
    ELSE OwnParameters(a)

Undeclared(e, m) ==
    /\ ~Declares(OwnParameters(e), m.paramName)
    /\ \A a \in DOMAIN endpoints :
           endpoints[a].url = m.urlPart => ~Declares(OwnParameters(a), m.paramName)

\* C8: when the pass fails, the error names a parameter and the URL of an
\* endpoint that has it as a placeholder, and neither that endpoint nor any
\* endpoint at the prefix up to the placeholder declares the parameter: the
\* pass does not fail when a declaring endpoint exists, whatever the order
\* of the endpoints.
C8_FailsOnlyWhenUndeclared ==
    phase = "failed" =>
        \E e \in DOMAIN endpoints :
            \E n \in DOMAIN ParameterMatches(endpoints[e].url) :
                LET m == ParameterMatches(endpoints[e].url)[n]
                IN /\ error.value = m.paramName
                   /\ error.shown = endpoints[e].url
                   /\ Undeclared(e, m)

\* the placeholders of a URL, whatever characters their names are made of
PlaceholderMatches(url) ==
    {m \in (1..Len(url)) \X (1..Len(url)) :
        /\ m[1] + 1 < m[2]
        /\ url[m[1]] = "{"
        /\ url[m[2]] = "}"
        /\ \A k \in (m[1] + 1)..(m[2] - 1) : url[k] \notin {"{", "}"}}

\* C8, the other direction: the pass fails when some endpoint has a
\* placeholder that nobody declares
C8_FailsWhenUndeclared ==
    phase = "returned" =>
        \A e \in DOMAIN endpoints : \A m \in PlaceholderMatches(endpoints[e].url) :
            ~Undeclared(e, [paramName |-> SubSeq(endpoints[e].url, m[1] + 1, m[2] - 1),
                            urlPart |-> SubSeq(endpoints[e].url, 1, m[2])])

\* the text with every slash that follows a slash left out
RECURSIVE CollapseSlashes(_)
CollapseSlashes(text) ==
    IF Len(text) <= 1 THEN text
    ELSE IF text[1] = "/" /\ text[2] = "/" THEN CollapseSlashes(Tail(text))
    ELSE <<Head(text)>> \o CollapseSlashes(Tail(text))

\* C9: the URL of every endpoint is its pathName followed by its
\* childPathName (nothing for a childPathName of '/') with every run of
\* slashes collapsed into one slash; no URL has two adjacent slashes.
C9_EveryRunOfSlashesCollapsed ==
    \A i \in DOMAIN endpoints :
        LET url == endpoints[i].url
            joined == document[i].pathName
                          \o (IF document[i].childPathName = <<"/">> THEN <<>>
                              ELSE document[i].childPathName)
        IN /\ url = CollapseSlashes(joined)
           /\ \A k \in 1..(Len(url) - 1) : ~(url[k] = "/" /\ url[k + 1] = "/")

(***************************************************************************)
(* The claims about the responses.                                         *)
(***************************************************************************)
\* the response map that was traversed has given a result
ResponsesReturned == phase \in {"done", "rendered"}

\* the result has exactly the status codes of the response map
SameStatusCodes == ResponsesReturned => DOMAIN responses = DOMAIN responseMap.map

\* the round of the loop for a status code that has no body
BodylessRound ==
    /\ phase = "traversing"
    /\ pending # <<>>
    /\ ~responseMap.map[Head(pending)].body.present

\* the round gives a Response with the description and nothing else, throws
\* nothing and leaves the registry and the schemas alone
BodylessRoundAddsEmptyResponse ==
    BodylessRound =>
        /\ phase' = "traversing"
        /\ error' = NoError
        /\ modelMap' = modelMap
        /\ heap' = heap
        /\ responses' =
               (Head(pending) :>
                    [description |-> responseMap.map[Head(pending)].description,
                     responseBodyExample |-> NoText,
                     responseBodySchema |-> NoSchema]) @@ responses

\* the only response of the endpoint is a 204 without a body
OnlyBodyless204 ==
    /\ DOMAIN responses = {<<"2", "0", "4">>}
    /\ responses[<<"2", "0", "4">>].responseBodySchema = NoSchema
    /\ ~responseMap.map[<<"2", "0", "4">>].body.present

\* formatting that endpoint does not fail: its response type is undefined
Bodyless204IsRendered ==
    (phase = "rendered" /\ ResponsesReturned /\ OnlyBodyless204) =>
        /\ ~output.threw
        /\ output.responseType = <<<<"undefined">>>>
        /\ output.responseTypes =
               <<[statusCode |-> <<"2", "0", "4">>, type |-> <<"undefined">>]>>

\* C10: traverseResponseSchemas returns a map with exactly the status codes
\* of the response map (none for an absent map); a status code without a
\* body gives a Response with its description and with neither schema nor
\* example, without an error and without a change of the registry; and an
\* endpoint whose only response is a 204 without a body is rendered without
\* a failure.
C10_BodylessResponses ==
    /\ [](SameStatusCodes /\ Bodyless204IsRendered)
    /\ [][BodylessRoundAddsEmptyResponse]_vars

\* a 204 without a body has been traversed with the model X in the registry
\* and the endpoint has been rendered
C10_Witness ==
    /\ phase = "rendered"
    /\ OnlyBodyless204
    /\ modelMap = ("X" :> 1)
    /\ ~output.threw

(***************************************************************************)
(* The claims about the entry points.                                      *)
(***************************************************************************)
\* a call of parseRAML has ended
ParseRAMLEnded == args.called = "parseRAML" /\ phase \in {"returned", "failed"}

\* how a call ended: with which kind of error, or with which result
Outcome(failed, kind, eps, models, baseUri, version) ==
    [failed |-> failed, kind |-> kind, endpoints |-> eps, models |-> models,
     baseUri |-> baseUri, version |-> version]

Thrown(kind) == Outcome(TRUE, kind, <<>>, <<>>, Undefined, Undefined)

\* how the call that has ended did end
ActualOutcome ==
    IF phase = "failed" THEN Thrown(error.kind)
    ELSE Outcome(FALSE, "none", returned.endpoints, returned.models,
                 returned.baseUri, returned.version)

\* how parseRAML ends when it is given the value v, which is no string
DirectOutcome(v) ==
    IF v.t \notin {"object", "array"} THEN Thrown("TypeError")
    ELSE LET r == findModelsAndEndpoints(<<>>, <<>>, v)
         IN IF r.error.kind # "none" THEN Thrown(r.error.kind)
            ELSE Outcome(FALSE, "none", r.endpoints, r.models,
                         GetOrUndefined(v, "baseUri"), GetOrUndefined(v, "version"))

\* C11: parseRAML given the source text calls the decoder once and ends as
\* it ends when it is given the decoded value itself; given a value that is
\* no string it never calls the decoder; given undefined, null, a number or
\* a boolean it fails with the TypeError of an invalid input before the
\* traversal starts.
C11_TextAndDecodedValueAgree ==
    ParseRAMLEnded =>
        /\ args.raml.text =>
              /\ decoderCalls = 1
              /\ LET d == loadYaml(args.raml.source)
                 IN d.ok /\ d.value.t # "string" =>
                        ActualOutcome = DirectOutcome(d.value)
        /\ ~args.raml.text =>
              /\ decoderCalls = 0
              /\ args.raml.value.t \in {"undefined", "null", "number", "boolean"} =>
                    /\ phase = "failed"
                    /\ error = JsError("TypeError", "Invalid input")
                    /\ registries = <<>>

\* the same for the sources that decode to an object or an array
C11_AgreeOnObjects ==
    ParseRAMLEnded /\ args.raml.text =>
        LET d == loadYaml(args.raml.source)
        IN d.ok /\ d.value.t \in {"object", "array"} =>
               ActualOutcome = DirectOutcome(d.value)

\* parseAndGenerate or CLI.generate has been called
Generating == args.called \in {"parseAndGenerate", "generate"}

\* a call that failed has returned no text and has written nothing; what
\* was written or returned is the one complete text renderAll gave
NoPartialOutput ==
    Generating =>
        /\ phase = "failed" => returned = NoReturn /\ written = <<>>
        /\ Len(written) <= 1
        /\ written # <<>> =>
              /\ args.called = "generate"
              /\ phase = "written"
              /\ written[1] = output
              /\ ~output.threw
              /\ output = renderAll(heap, modelMap, RequestBodies(endpoints),
                                    DefaultOptions)
        /\ returned # NoReturn =>
              /\ args.called = "parseAndGenerate"
              /\ phase = "returned"
              /\ returned.rendered = output
              /\ ~output.threw

\* the steps run in the order decode, normalize, render, write: the source
\* is decoded right after the call, the document is traversed right after
\* it is decoded, the renderer runs right after the traversal has returned,
\* and the one write follows a rendering that has completed
StepsInOrder ==
    Generating =>
        /\ decoderCalls' # decoderCalls => phase = "called" /\ decoderCalls = 0
        /\ registries' # registries => phase = "decoded" /\ registries = <<>>
        /\ output' # output => phase = "parsed" /\ output = NoOutput
        /\ written' # written =>
              /\ phase = "rendered"
              /\ ~output.threw
              /\ written = <<>>
              /\ written' = <<output>>

\* C12: in parseAndGenerate and in CLI.generate the steps run in the order
\* decode, normalize, render, write; when one of them fails the call fails
\* as a whole, no text is returned and nothing is written; the output is
\* written at most once, after the rendering has completed.
C12_NoPartialOutput == []NoPartialOutput /\ [][StepsInOrder]_vars

\* CLI.generate has failed in the renderer, after a traversal that
\* registered a model, and nothing was written
C12_Witness ==
    /\ args.called = "generate"
    /\ phase = "failed"
    /\ error = JsError("Error", "renderAll")
    /\ modelMap # <<>>
    /\ written = <<>>

\* the other failures of the claim: a malformed schema text, a type tag
\* that is not handled, a URL parameter without a definition
FailsInNormalization ==
    /\ Generating
    /\ phase = "failed"
    /\ error.kind \in {"SyntaxError", "unhandledCase", "No definition of URL parameter"}

(***************************************************************************)
(* The claims about several calls on one parser.                           *)
(***************************************************************************)
\* the heap as JSON.parse left it, before any run has touched a definition
PristineHeap ==
    [a \in 1..Len(heap) |->
        IF a \in DOMAIN parsed THEN parsed[a] ELSE Node(NoType, NoId, NoId, NoKids)]

\* the call of run i when it is the only one: from the schema as it was
\* parsed and with a registry of its own
Alone(i) == NormalizeSchema(PristineHeap, <<>>, runs[i].root)

\* A definition as a value, without its address: the definition with its
\* children, where a child that is an instance of the registry is named by
\* its keys. The depth is bounded (a definition may hold itself).
RECURSIVE DefinitionAt(_, _, _, _)
ChildAt(h, mm, a, depth) ==
    IF \E k \in DOMAIN mm : mm[k] = a
    THEN [model |-> {k \in DOMAIN mm : mm[k] = a}]
    ELSE DefinitionAt(h, mm, a, depth)

DefinitionAt(h, mm, a, depth) ==
    IF depth = 0 THEN [model |-> {}]
    ELSE [type |-> h[a].type, id |-> h[a].id, ref |-> h[a].ref,
          kids |-> [s \in DOMAIN h[a].kids |-> ChildAt(h, mm, h[a].kids[s], depth - 1)]]

\* the result of a call that has ended: the error, or the models of the
\* registry and the schema that was returned
ResultOf(h, mm, r) ==
    IF r.error.kind # "none"
    THEN [failed |-> TRUE, kind |-> r.error.kind, models |-> <<>>,
          schema |-> [model |-> {}]]
    ELSE [failed |-> FALSE, kind |-> "none",
          models |-> [k \in DOMAIN mm |-> DefinitionAt(h, mm, mm[k], MaxNodes + 1)],
          schema |-> ChildAt(h, mm, r.retval, MaxNodes + 1)]

RunEnded(i) == runs[i].stack = <<>>

\* the definitions of the schema run i was called with
DocumentOf(i) == ReachableFrom(PristineHeap, {runs[i].root})

\* C13: every call has its own registry: when a call has ended, whatever
\* the other calls on the parser have done before, meanwhile or since, its
\* models are definitions of its own document (or copies it made of them),
\* and its result is the one it gives when it runs alone.
C13_RunsAreIsolated ==
    \A i \in 1..Len(runs) :
        RunEnded(i) =>
            LET mm == registries[runs[i].models]
                alone == Alone(i)
            IN /\ \A k \in DOMAIN mm :
                      mm[k] \in DocumentOf(i) \/ mm[k] \notin DOMAIN parsed
               /\ \A j \in 1..Len(runs) : j # i => runs[j].models # runs[i].models
               /\ ResultOf(heap, mm, runs[i]) =
                      ResultOf(alone.heap, alone.modelMap, alone)

\* the second call has ended while the first, which has registered a model
\* under the same id, is still under way
C13_Witness ==
    /\ Len(runs) = 2
    /\ runs[1].stack # <<>>
    /\ RunEnded(2)
    /\ runs[2].error = NoError
    /\ "X" \in DOMAIN registries[1]
    /\ "X" \in DOMAIN registries[2]
    /\ registries[1]["X"] # registries[2]["X"]

(***************************************************************************)
(* The claims about renderAll on a document without endpoints and models.  *)
(***************************************************************************)
\* renderAll has returned for a document without endpoints and without models
RenderedEmptyDocument ==
    /\ phase = "rendered"
    /\ output.threw = FALSE
    /\ calls = <<>>
    /\ DOMAIN modelMap = {}

\* C14: renderAll returns the empty text whenever the parsed document has
\* zero endpoints and zero models, for every configuration of the options.
C14_EmptyDocumentRendersEmpty ==
    RenderedEmptyDocument => output.empty

\* with addEndpointList off (the default) the text of such a document is empty
C14_EmptyWithoutEndpointList ==
    (RenderedEmptyDocument /\ ~output.options.addEndpointList) => output.empty

(***************************************************************************)
(* Documents whose definitions carry the "required" flag: the bodies are   *)
(* parsed and normalized one by one and the result is rendered.            *)
(***************************************************************************)
\* a primitive, and Objects that carry an id, a $ref or neither, each with
\* "required": true or without it
FieldDefinitions ==
    {[d EXCEPT !.required = r] :
        d \in {n \in NestedDefinitions :
                  \/ n.type = "string"
                  \/ n.type = "object" /\ (n.id = NoId \/ n.ref = NoId)},
        r \in BOOLEAN}

NextFields ==
    \/ \E d \in FieldDefinitions : ParseRoot(d)
    \/ \E i \in 1..MaxNodes, s \in {"p", "q"}, d \in FieldDefinitions :
           ParseChild(i, s, d)
    \/ NormalizeRequestBody
    \/ \E opts \in RenderOptions : RenderAll(opts)

SpecFields == Init /\ [][NextFields]_vars

(***************************************************************************)
(* The claims about the round trip between normalizer and renderer.        *)
(***************************************************************************)
Rendered == phase = "rendered" /\ output.threw = FALSE

\* the fields of the schema as JSON.parse gave it: one per entry of its
\* properties, with the flag and the rendered type of the entry
OriginalFields(root) ==
    LET keys == PropertyKeys(parsed[root])
    IN [i \in 1..Len(keys) |->
           [key |-> keys[i],
            required |-> parsed[parsed[root].kids[keys[i]]].required,
            type |-> renderTypescriptPropertyDefinition(
                         parsed, output.options, parsed[root].kids[keys[i]])]]

\* the declarations that renderAll emitted under a name
DeclarationsNamed(name) ==
    {i \in 1..Len(output.interfaces) : output.interfaces[i].name = name}

\* the type name that the request body of an endpoint is rendered as
BodyTypeName(c) == renderTypescriptPropertyDefinition(heap, output.options, c.ret)

\* the request bodies that are models: Objects with an id
ModelBodies == {i \in 1..Len(calls) : parsed[calls[i].root].id # NoId}

RoundTrip(i, Same(_, _)) ==
    /\ ~IsRenderError(BodyTypeName(calls[i]))
    /\ DeclarationsNamed(BodyTypeName(calls[i])) # {}
    /\ \A j \in DeclarationsNamed(BodyTypeName(calls[i])) :
           LET fields == output.interfaces[j].fields
               original == OriginalFields(calls[i].root)
           IN /\ Len(fields) = Len(original)
              /\ \A k \in 1..Len(fields) : Same(fields[k], original[k])

SameField(f, g) == f = g
SameNameAndType(f, g) == f.key = g.key /\ f.type = g.type

\* C15: for every endpoint, rendering its request body schema gives a type
\* name, and the declaration emitted under that name has one field per entry
\* of the original schema's properties, with the same names, the same
\* required flags and the same rendered types, in name order.
C15_RoundTrip ==
    Rendered => \A i \in ModelBodies : RoundTrip(i, SameField)

\* the same for a document with one endpoint
C15_RoundTripOfOneBody ==
    (Rendered /\ Len(calls) = 1) => \A i \in ModelBodies : RoundTrip(i, SameField)

\* with one endpoint the names and the rendered types of the fields are those
\* of the original schema
C15_NamesAndTypesOfOneBody ==
    (Rendered /\ Len(calls) = 1) => \A i \in ModelBodies : RoundTrip(i, SameNameAndType)

(***************************************************************************)
(* The functions that are called with arguments and return a value: args   *)
(* holds the call, returned the value it gave. Nothing else changes.       *)
(***************************************************************************)
stateVars == <<schemaVars, docVars, phase, error, ramlDocument, decoderCalls,
               written, registries, runs>>

Invoke(called, argument) == [called |-> called, argument |-> argument]
Return(value) == [returned |-> TRUE, value |-> value]

\* the argument of the call of a function, empty before it is built
ArgumentOf(called, empty) == IF args.called = called THEN args.argument ELSE empty

Injective(f) == \A i, j \in DOMAIN f : f[i] = f[j] => i = j

\* the code units of the characters that occur in the texts
CharCode(c) ==
    CASE c = "\n" -> 10 [] c = " " -> 32 [] c = "'" -> 39 [] c = "/" -> 47
      [] c = "1" -> 49 [] c = "\\" -> 92 [] c = "a" -> 97 [] c = "b" -> 98

\* a < b for two strings of JavaScript: the first code unit that differs
\* decides, a proper prefix comes first
RECURSIVE StringLess(_, _)
StringLess(a, b) ==
    IF b = <<>> THEN FALSE
    ELSE IF a = <<>> THEN TRUE
    ELSE IF Head(a) # Head(b) THEN CharCode(Head(a)) < CharCode(Head(b))
    ELSE StringLess(Tail(a), Tail(b))

(***************************************************************************)
(* sortEndpointsForJsDoc (typescript-renderer.ts:493-515)                  *)
(***************************************************************************)
\* the length of the list that is sorted
MaxInfos == 3

\* defaultOptions.methodSortOrder
methodSortOrder == <<"GET", "POST", "PATCH", "PUT", "DELETE">>

\* methodSortOrder.indexOf(method)
indexOf(method) ==
    IF \E i \in 1..Len(methodSortOrder) : methodSortOrder[i] = method
    THEN (CHOOSE i \in 1..Len(methodSortOrder) : methodSortOrder[i] = method) - 1
    ELSE -1

\* the entries of a list: three of the methods, three URLs of which one is
\* a prefix of another, two status codes
ResponseInfos ==
    [endpoint : [method : {"GET", "POST", "DELETE"},
                 url : {<<"/", "a">>, <<"/", "a", "b">>, <<"/", "b">>}],
     statusCode : {200, 204}]

\* the comparator of list.sort: it never returns 0
compareFn(a, b) ==
    LET orderIndexA == indexOf(a.endpoint.method)
        orderIndexB == indexOf(b.endpoint.method)
    IN IF orderIndexA # orderIndexB THEN orderIndexA - orderIndexB
       ELSE IF StringLess(a.endpoint.url, b.endpoint.url) THEN -1
       ELSE 1

\* list.sort(compareFn): the comparator says "greater" for two entries of equal
\* method and URL in both directions, so it is not a consistent comparator
\* and the order of such entries is up to the engine; every two entries that
\* it orders consistently come in that order
SortOutcomes(list) ==
    LET n == Len(list)
        perms == {p \in [1..n -> 1..n] : Injective(p)}
        outcomes == {[i \in 1..n |-> list[p[i]]] : p \in perms}
    IN {out \in outcomes :
           \A i, j \in 1..n :
               (compareFn(out[i], out[j]) < 0 /\ compareFn(out[j], out[i]) > 0) => i < j}

\* a filter that keeps every entry
RECURSIVE KeepAll(_, _)
KeepAll(list, unique) ==
    IF list = <<>> THEN unique
    ELSE KeepAll(Tail(list), Append(unique, Head(list)))

\* the loop over the sorted list: an entry is pushed when no entry pushed
\* before has its URL and its method
RECURSIVE UniqueEndpoints(_, _)
UniqueEndpoints(list, unique) ==
    IF list = <<>> THEN unique
    ELSE LET response == Head(list)
         IN IF \A i \in 1..Len(unique) :
                   \/ unique[i].endpoint.url # response.endpoint.url
                   \/ unique[i].endpoint.method # response.endpoint.method
            THEN UniqueEndpoints(Tail(list), Append(unique, response))
            ELSE UniqueEndpoints(Tail(list), unique)

\* endpointsWithResponseType gives the next entry of the list
AddResponseInfo(info) ==
    /\ returned = NoReturn
    /\ args.called \in {"nothing", "sortEndpointsForJsDoc"}
    /\ Len(ArgumentOf("sortEndpointsForJsDoc", <<>>)) < MaxInfos
    /\ args' = Invoke("sortEndpointsForJsDoc",
                    Append(ArgumentOf("sortEndpointsForJsDoc", <<>>), info))
    /\ UNCHANGED <<returned, stateVars>>

\* sortEndpointsForJsDoc(list)
SortEndpointsForJsDoc ==
    /\ returned = NoReturn
    /\ args.called \in {"nothing", "sortEndpointsForJsDoc"}
    /\ \E sorted \in SortOutcomes(ArgumentOf("sortEndpointsForJsDoc", <<>>)) :
          /\ args' = Invoke("sortEndpointsForJsDoc", sorted)
          /\ returned' = Return(UniqueEndpoints(sorted, <<>>))
    /\ UNCHANGED stateVars

NextSort ==
    \/ \E info \in ResponseInfos : AddResponseInfo(info)
    \/ SortEndpointsForJsDoc

SpecSort == Init /\ [][NextSort]_vars

(***************************************************************************)
(* The claims about sortEndpointsForJsDoc.                                 *)
(***************************************************************************)
Pair(info) == <<info.endpoint.method, info.endpoint.url>>

PairsOf(list) == {Pair(list[i]) : i \in 1..Len(list)}

Sorted == returned # NoReturn /\ args.called = "sortEndpointsForJsDoc"

MaxChars == 5

\* the largest maxLength that is passed
MaxWidth == 3

\* the characters of the texts: two letters, the blank, the line break
TextChars == {"a", "b", " ", "\n"}

\* \s of a regular expression, for the characters that occur
IsSpace(c) == c \in {" ", "\t", "\n"}

\* input.indexOf('\n') >= 0
HasLineBreak(text) == \E i \in 1..Len(text) : text[i] = "\n"

\* input.split('\n')
RECURSIVE SplitAtLineBreaks(_, _)
SplitAtLineBreaks(text, line) ==
    IF text = <<>> THEN <<line>>
    ELSE IF Head(text) = "\n" THEN <<line>> \o SplitAtLineBreaks(Tail(text), <<>>)
    ELSE SplitAtLineBreaks(Tail(text), Append(line, Head(text)))

\* the longest prefix of text of characters that are (are not) white space
LeadingRun(text, spaces) ==
    LET stops == {i \in 1..Len(text) : IsSpace(text[i]) # spaces}
    IN IF stops = {} THEN text
       ELSE SubSeq(text, 1, (CHOOSE i \in stops : \A j \in stops : i <= j) - 1)

\* the matches of /([\s\t]*)([^\s\t]+)/g from left to right: white space, as
\* much as there is, and the word that follows it; white space at the end
\* of the input is no match
RECURSIVE RegexMatches(_)
RegexMatches(text) ==
    LET space == LeadingRun(text, TRUE)
        rest == SubSeq(text, Len(space) + 1, Len(text))
        word == LeadingRun(rest, FALSE)
    IN IF word = <<>> THEN <<>>
       ELSE <<[space |-> space, word |-> word]>>
                \o RegexMatches(SubSeq(rest, Len(word) + 1, Len(rest)))

\* currentLine.join('')
RECURSIVE JoinParts(_)
JoinParts(parts) == IF parts = <<>> THEN <<>> ELSE Head(parts) \o JoinParts(Tail(parts))

\* a break that does not count the white space before the word
BreaksBeforeWord(length, space, word, maxLength) ==
    length # 0 /\ length + Len(word) > maxLength

\* length && length + space.length + word.length > maxLength
BreaksBefore(length, space, word, maxLength) ==
    length # 0 /\ length + Len(space) + Len(word) > maxLength

\* the while loop over the matches
RECURSIVE WrapMatches(_, _, _, _, _)
WrapMatches(matches, maxLength, length, currentLine, lines) ==
    IF matches = <<>>
    THEN IF Len(currentLine) # 0 THEN Append(lines, JoinParts(currentLine)) ELSE lines
    ELSE LET space == Head(matches).space
             word == Head(matches).word
             break == BreaksBefore(length, space, word, maxLength)
             lines1 == IF break THEN Append(lines, JoinParts(currentLine)) ELSE lines
             currentLine1 == IF break THEN <<>> ELSE currentLine
             length1 == IF break THEN 0 ELSE length
         IN IF Len(currentLine1) # 0
            THEN WrapMatches(Tail(matches), maxLength,
                             length1 + Len(space) + Len(word),
                             currentLine1 \o <<space, word>>, lines1)
            ELSE WrapMatches(Tail(matches), maxLength,
                             length1 + Len(word), Append(currentLine1, word), lines1)

\* an argument of wordWrap: a string, or an array of strings
Text(chars) == [array |-> FALSE, lines |-> <<chars>>]
Array(lines) == [array |-> TRUE, lines |-> lines]

\* wordWrap(input, maxLength) for a string without a line break
WrapLine(input, maxLength) ==
    IF maxLength = 0 \/ Len(input) < maxLength THEN <<input>>
    ELSE WrapMatches(RegexMatches(input), maxLength, 0, <<>>, <<>>)

\* wordWrap(input, maxLength) for a string
RECURSIVE WrapStrings(_, _)
WrapString(input, maxLength) ==
    IF HasLineBreak(input) THEN WrapStrings(SplitAtLineBreaks(input, <<>>), maxLength)
    ELSE WrapLine(input, maxLength)

\* input.reduce((result, line) => result.concat(wordWrap(line, maxLength)), [])
WrapStrings(lines, maxLength) ==
    IF lines = <<>> THEN <<>>
    ELSE WrapString(Head(lines), maxLength) \o WrapStrings(Tail(lines), maxLength)

wordWrap(input, maxLength) ==
    IF input.array THEN WrapStrings(input.lines, maxLength)
    ELSE WrapString(input.lines[1], maxLength)

\* the number of characters of an argument
RECURSIVE SizeOf(_)
SizeOf(lines) ==
    IF lines = <<>> THEN 0
    ELSE Len(Head(lines)) + (IF Len(lines) > 1 THEN 1 ELSE 0) + SizeOf(Tail(lines))

\* the caller writes the next character of the text
TypeCharacter(c) ==
    /\ returned = NoReturn
    /\ args.called \in {"nothing", "wordWrap"}
    /\ LET input == ArgumentOf("wordWrap", Text(<<>>))
           last == Len(input.lines)
       IN /\ last > 0
          /\ SizeOf(input.lines) < MaxChars
          /\ args' = Invoke("wordWrap", [input EXCEPT !.lines[last] = Append(@, c)])
    /\ UNCHANGED <<returned, stateVars>>

\* the caller starts the next string of an array
NextString ==
    /\ returned = NoReturn
    /\ args.called \in {"nothing", "wordWrap"}
    /\ LET input == ArgumentOf("wordWrap", Text(<<>>))
       IN /\ SizeOf(input.lines) < MaxChars
          /\ args' = Invoke("wordWrap", Array(Append(input.lines, <<>>)))
    /\ UNCHANGED <<returned, stateVars>>

\* the caller starts with an empty array
EmptyLines ==
    /\ returned = NoReturn
    /\ args.called = "nothing"
    /\ args' = Invoke("wordWrap", Array(<<>>))
    /\ UNCHANGED <<returned, stateVars>>

\* wordWrap(input, maxLength)
WordWrap(maxLength) ==
    /\ returned = NoReturn
    /\ args.called \in {"nothing", "wordWrap"}
    /\ args' = Invoke("wordWrap", ArgumentOf("wordWrap", Text(<<>>)))
    /\ returned' = Return([maxLength |-> maxLength,
                           lines |-> wordWrap(ArgumentOf("wordWrap", Text(<<>>)),
                                              maxLength)])
    /\ UNCHANGED stateVars

NextWrap ==
    \/ \E c \in TextChars : TypeCharacter(c)
    \/ NextString
    \/ EmptyLines
    \/ \E maxLength \in 0..MaxWidth : WordWrap(maxLength)

SpecWrap == Init /\ [][NextWrap]_vars

(***************************************************************************)
(* The claims about wordWrap.                                              *)
(***************************************************************************)
Wrapped == returned # NoReturn /\ args.called = "wordWrap"

\* the words of a text: its longest stretches without white space
RECURSIVE WordsOf(_, _)
WordsOf(text, word) ==
    IF text = <<>> THEN (IF word = <<>> THEN <<>> ELSE <<word>>)
    ELSE IF IsSpace(Head(text))
    THEN (IF word = <<>> THEN <<>> ELSE <<word>>) \o WordsOf(Tail(text), <<>>)
    ELSE WordsOf(Tail(text), Append(word, Head(text)))

\* the words of the lines of a list, read in order
RECURSIVE WordsOfLines(_)
WordsOfLines(lines) ==
    IF lines = <<>> THEN <<>>
    ELSE WordsOf(Head(lines), <<>>) \o WordsOfLines(Tail(lines))

\* the lines of an argument: the strings, each cut at its line breaks
RECURSIVE InputLines(_)
InputLines(lines) ==
    IF lines = <<>> THEN <<>>
    ELSE SplitAtLineBreaks(Head(lines), <<>>) \o InputLines(Tail(lines))

\* the results of wrapping every line of a list by itself, one after the other
RECURSIVE LineByLine(_, _)
LineByLine(lines, maxLength) ==
    IF lines = <<>> THEN <<>>
    ELSE wordWrap(Text(Head(lines)), maxLength) \o LineByLine(Tail(lines), maxLength)

\* C17: for every positive maxLength the words of the output lines, read in
\* order, are the words of the input in order; a word longer than maxLength
\* is not split and stands alone on its line; every output line of more than
\* one word is at most maxLength long; an array or an input with line breaks
\* is wrapped line by line; maxLength 0 returns every line unchanged.
C17_BreaksOnlyAtWhiteSpace ==
    Wrapped =>
        LET input == args.argument
            maxLength == returned.value.maxLength
            lines == returned.value.lines
        IN /\ lines = LineByLine(InputLines(input.lines), maxLength)
           /\ \A i \in 1..Len(lines) : ~HasLineBreak(lines[i])
           /\ maxLength = 0 => lines = InputLines(input.lines)
           /\ maxLength > 0 =>
                 /\ WordsOfLines(lines) = WordsOfLines(input.lines)
                 /\ \A i \in 1..Len(lines) :
                       LET words == WordsOf(lines[i], <<>>)
                       IN /\ Len(words) > 1 => Len(lines[i]) <= maxLength
                          /\ (\E k \in 1..Len(words) : Len(words[k]) > maxLength)
                                 => Len(words) = 1

\* a line whose first word is longer than maxLength has been wrapped: the
\* word stands alone and whole on the first line
C17_Witness ==
    /\ Wrapped
    /\ ~args.argument.array
    /\ returned.value.maxLength = 2
    /\ args.argument.lines[1] = <<"a", "a", "a", " ", "b">>
    /\ returned.value.lines = << <<"a", "a", "a">>, <<"b">> >>

(***************************************************************************)
(* formatValueAsPOJO and formatAsObjectKey (utils/format-as-pojo.ts). A    *)
(* string is a sequence of characters. An output is a sequence of          *)
(* characters too, in which a word that the code writes as a literal       *)
(* ('null', '{ }', the four blanks of the indentation) is one element.     *)
(***************************************************************************)
\* the length of the strings and keys that are formatted
MaxKeyChars == 2

\* the characters of the strings and keys: a letter, a digit, the two other
\* characters of identifiers, a dot, the two quotes, the backslash and the
\* characters with an escape of their own
PojoChars == {"a", "1", "$", "_", ".", "'", "\"", "\\", "\n", "\r", "\t"}

\* the strings of at most n characters
RECURSIVE StringsUpTo(_)
StringsUpTo(n) ==
    IF n = 0 THEN {<<>>}
    ELSE LET shorter == StringsUpTo(n - 1)
         IN shorter \cup {Append(str, c) : str \in shorter, c \in PojoChars}

\* the numbers: s holds the decimal digits of a finite number, or the name
\* of one of the three that are not finite
NumberOf(name) == Value("number", <<name>>, <<>>)
NotFinite == {"NaN", "Infinity", "-Infinity"}
BooleanOf(name) == Value("boolean", <<name>>, <<>>)

\* an array: its entries have the indices as keys
ArrayOf(values) == Value("array", <<>>, [i \in 1..Len(values) |-> Entry(i, values[i])])

\* JSON.stringify(value) of a number: a number that is not finite gives null
JSONStringifyNumber(value) ==
    IF value.s[1] \in NotFinite THEN <<"null">> ELSE value.s

\* the escape of JSON.stringify for one character of a string
JSONEscape(c) ==
    CASE c = "\"" -> <<"\\", "\"">>
      [] c = "\\" -> <<"\\", "\\">>
      [] c = "\n" -> <<"\\", "n">>
      [] c = "\r" -> <<"\\", "r">>
      [] c = "\t" -> <<"\\", "t">>
      [] OTHER -> <<c>>

\* the text with every character replaced by what f gives for it
ReplaceEach(text, f(_)) == JoinParts([i \in 1..Len(text) |-> f(text[i])])

\* JSON.stringify(value) of a string
JSONStringifyString(str) == <<"\"">> \o ReplaceEach(str, JSONEscape) \o <<"\"">>

\* a replacement that leaves the single quotes as they are
KeepQuotes(text) == text

\* .replace(/'/g, '\\\'')
EscapeQuotes(text) ==
    ReplaceEach(text, LAMBDA c : IF c = "'" THEN <<"\\", "'">> ELSE <<c>>)

\* /^[a-zA-Z$_][a-zA-Z0-9$_]*$/.test(key)
IsKeyPattern(key) ==
    /\ key # <<>>
    /\ key[1] \in {"a", "$", "_"}
    /\ \A i \in 1..Len(key) : key[i] \in {"a", "1", "$", "_"}

\* formatAsObjectKey(key)
formatAsObjectKey(key) ==
    IF IsKeyPattern(key) THEN key
    ELSE LET escaped1 == ReplaceEach(key, LAMBDA c : IF c \in {"\\", "'"}
                                                       THEN <<"\\", c>> ELSE <<c>>)
             escaped2 == ReplaceEach(escaped1, LAMBDA c : IF c = "\n"
                                                          THEN <<"\\", "n">> ELSE <<c>>)
             escaped3 == ReplaceEach(escaped2, LAMBDA c : IF c = "\r"
                                                          THEN <<"\\", "r">> ELSE <<c>>)
             escaped4 == ReplaceEach(escaped3, LAMBDA c : IF c = "\t"
                                                          THEN <<"\\", "t">> ELSE <<c>>)
         IN <<"'">> \o escaped4 \o <<"'">>

\* input.split('\n').join('\n' + indentation)
indent(input) ==
    ReplaceEach(input, LAMBDA c : IF c = "\n" THEN <<"\n", "    ">> ELSE <<c>>)

\* parts.join(separator)
RECURSIVE JoinWith(_, _)
JoinWith(parts, separator) ==
    IF parts = <<>> THEN <<>>
    ELSE IF Len(parts) = 1 THEN parts[1]
    ELSE parts[1] \o separator \o JoinWith(Tail(parts), separator)

RECURSIVE formatValueAsPOJO(_)
formatValueAsPOJO(value) ==
    CASE value.t = "null" -> <<"null">>
      [] value.t = "boolean" -> IF value.s = <<"true">> THEN <<"true">> ELSE <<"false">>
      [] value.t = "number" ->
            IF value.s = <<"NaN">> THEN <<"NaN">>
            ELSE IF value.s = <<"Infinity">> THEN <<"Infinity">>
            ELSE IF value.s = <<"-Infinity">> THEN <<"-Infinity">>
            ELSE JSONStringifyNumber(value)
      [] value.t = "string" ->
            LET jsonString == EscapeQuotes(JSONStringifyString(value.s))
            IN <<"'">> \o SubSeq(jsonString, 2, Len(jsonString) - 1) \o <<"'">>
      [] value.t = "array" ->
            IF Len(value.m) = 0 THEN <<"[]">>
            ELSE <<"[", "\n", "    ">>
                 \o JoinWith([i \in 1..Len(value.m) |->
                                 indent(formatValueAsPOJO(value.m[i].value))],
                             <<",", "\n", "    ">>)
                 \o <<"\n", "]">>
      [] value.t = "object" ->
            IF Len(value.m) = 0 THEN <<"{ }">>
            ELSE <<"{", "\n", "    ">>
                 \o JoinWith([i \in 1..Len(value.m) |->
                                 formatAsObjectKey(value.m[i].key) \o <<": ">>
                                     \o indent(formatValueAsPOJO(value.m[i].value))],
                             <<",", "\n", "    ">>)
                 \o <<"\n", "}">>
      [] value.t = "undefined" -> <<"undefined">>

\* the values without entries: null, undefined, the booleans, five numbers,
\* the strings, the empty array and the empty object
PlainValues ==
    {Null, Undefined, EmptyArray, Object(<<>>)}
    \cup {BooleanOf(b) : b \in {"true", "false"}}
    \cup {NumberOf(n) : n \in NotFinite \cup {"0", "1234"}}
    \cup {String(str) : str \in StringsUpTo(MaxKeyChars)}

\* the values that are formatted: the plain ones, the arrays of one or two
\* of them and the objects of one key, of which some hold an object again
NestedSamples ==
    {Null, NumberOf("NaN"), String(<<"'">>), Object(<<>>),
     Object(<<Entry(<<"a">>, Null), Entry(<<".">>, EmptyArray)>>)}

PojoValues ==
    PlainValues
    \cup {ArrayOf(<<v>>) : v \in NestedSamples}
    \cup {ArrayOf(<<v, w>>) : v, w \in NestedSamples}
    \cup {Object(<<Entry(key, v)>>) : key \in StringsUpTo(MaxKeyChars), v \in NestedSamples}

\* formatValueAsPOJO(value)
FormatValueAsPOJO(value) ==
    /\ args = NoArgs
    /\ args' = Invoke("formatValueAsPOJO", value)
    /\ returned' = Return(formatValueAsPOJO(value))
    /\ UNCHANGED stateVars

\* formatAsObjectKey(key)
FormatAsObjectKey(key) ==
    /\ args = NoArgs
    /\ args' = Invoke("formatAsObjectKey", key)
    /\ returned' = Return(formatAsObjectKey(key))
    /\ UNCHANGED stateVars

NextFormat ==
    \/ \E value \in PojoValues : FormatValueAsPOJO(value)
    \/ \E key \in StringsUpTo(MaxKeyChars) : FormatAsObjectKey(key)

SpecFormat == Init /\ [][NextFormat]_vars

(***************************************************************************)
(* The claims about formatValueAsPOJO and formatAsObjectKey.               *)
(***************************************************************************)
\* the string that a single-quoted literal of JavaScript with this text
\* between its quotes denotes; no string when the text holds a line break or
\* a single quote that is not escaped, or ends in the middle of an escape
NoString == <<"no string">>

RECURSIVE Denotes(_)
Denotes(text) ==
    IF text = <<>> THEN <<>>
    ELSE IF Head(text) \in {"\n", "\r", "'"} THEN NoString
    ELSE IF Head(text) = "\\"
    THEN IF Len(text) < 2 THEN NoString
         ELSE LET c == text[2]
                  rest == Denotes(SubSeq(text, 3, Len(text)))
                  char == CASE c = "n" -> "\n" [] c = "r" -> "\r" [] c = "t" -> "\t"
                            [] OTHER -> c
              IN IF rest = NoString THEN NoString ELSE <<char>> \o rest
    ELSE LET rest == Denotes(Tail(text))
         IN IF rest = NoString THEN NoString ELSE <<Head(text)>> \o rest

\* out is a literal in single quotes that denotes str
QuotedLiteralOf(out, str) ==
    /\ Len(out) >= 2
    /\ out[1] = "'"
    /\ out[Len(out)] = "'"
    /\ Denotes(SubSeq(out, 2, Len(out) - 1)) = str

\* a safe identifier: letters, digits, $ and _, not starting with a digit
SafeIdentifier(key) ==
    /\ Len(key) > 0
    /\ \A i \in 1..Len(key) : key[i] \in {"a", "1", "$", "_"}
    /\ key[1] # "1"

KeyFormatted(key, out) ==
    IF SafeIdentifier(key) THEN out = key
    ELSE out # key /\ QuotedLiteralOf(out, key)

Formatted(called) == returned # NoReturn /\ args.called = called

\* C18: formatValueAsPOJO renders an empty object as '{ }', an empty array as
\* '[]', null and undefined as those words, NaN, Infinity and -Infinity as
\* those bare words, a string in single quotes with line breaks and single
\* quotes escaped, and an object key unquoted exactly when it is a safe
\* identifier and single-quoted with escapes otherwise.
C18_FormatsValuesAndKeys ==
    /\ Formatted("formatAsObjectKey") => KeyFormatted(args.argument, returned.value)
    /\ Formatted("formatValueAsPOJO") =>
          LET value == args.argument
              out == returned.value
          IN /\ value = Object(<<>>) => out = <<"{ }">>
             /\ value = EmptyArray => out = <<"[]">>
             /\ value = Null => out = <<"null">>
             /\ value = Undefined => out = <<"undefined">>
             /\ \A n \in NotFinite : value = NumberOf(n) => out = <<n>>
             /\ value.t = "string" => QuotedLiteralOf(out, value.s)
             /\ (value.t = "object" /\ Len(value.m) = 1) =>
                   \E n \in 1..Len(out) :
                       /\ KeyFormatted(value.m[1].key, SubSeq(out, 4, 3 + n))
                       /\ SubSeq(out, 4 + n, Len(out)) =
                              <<": ">> \o indent(formatValueAsPOJO(value.m[1].value))
                                  \o <<"\n", "}">>

\* a string of a single quote and a line break has been formatted
C18_Witness ==
    /\ Formatted("formatValueAsPOJO")
    /\ args.argument = String(<<"'", "\n">>)
    /\ returned.value = <<"'", "\\", "'", "\\", "n", "'">>

\* an object whose key is no identifier has been formatted
C18_WitnessKey ==
    /\ Formatted("formatValueAsPOJO")
    /\ args.argument = Object(<<Entry(<<"1", "a">>, NumberOf("NaN"))>>)
    /\ returned.value = <<"{", "\n", "    ", "'", "1", "a", "'", ": ", "NaN", "\n", "}">>

(***************************************************************************)
(* CLI.main (cli.ts:70-157): the argument list, and whether standard input *)
(* and standard output are terminals. The long form of an option shares    *)
(* the case label of the short one, which stands for both.                 *)
(***************************************************************************)
\* the length of the argument list
MaxArgs == 3

\* the arguments: the options, an option that main does not know, a file
\* name and the empty string
CliTokens == {"-i", "-I", "-o", "-O", "--verbose", "--", "-h", "-v", "-x", "a", ""}

\* arg.startsWith('-')
StartsWithDash(arg) == arg \notin {"a", ""}

\* the values of inFile and outFile: undefined, a string, or the stream
\* process.stdin or process.stdout
NotSet == [kind |-> "undefined"]
FileName(name) == [kind |-> "string", name |-> name]
Stream(name) == [kind |-> "stream", name |-> name]

\* a value in a condition: undefined and the empty string count as false
Truthy(v) == v.kind = "stream" \/ (v.kind = "string" /\ v.name # "")

\* args[index], undefined past the end; indices count from 0
ArgAt(argv, index) == IF index < Len(argv) THEN FileName(argv[index + 1]) ELSE NotSet

\* index >= argc, evaluated inside the loop at the option itself
OptionIsPastEnd(index, argc) == index >= argc

\* the for loop over the arguments
RECURSIVE ParseArgs(_, _, _)
ParseArgs(argv, index, st) ==
    LET argc == Len(argv)
    IN IF ~(index < argc /\ ~st.endParsing) THEN st
       ELSE LET arg == argv[index + 1]
            IN CASE arg = "-i" ->
                      IF Truthy(st.inFile) \/ OptionIsPastEnd(index, argc)
                      THEN ParseArgs(argv, index + 1, [st EXCEPT !.invalid = TRUE])
                      ELSE ParseArgs(argv, index + 2,
                                     [st EXCEPT !.inFile = ArgAt(argv, index + 1)])
                 [] arg = "-I" ->
                      IF Truthy(st.inFile)
                      THEN ParseArgs(argv, index + 1, [st EXCEPT !.invalid = TRUE])
                      ELSE ParseArgs(argv, index + 1,
                                     [st EXCEPT !.inFile = Stream("stdin")])
                 [] arg = "-o" ->
                      IF Truthy(st.outFile) \/ OptionIsPastEnd(index, argc)
                      THEN ParseArgs(argv, index + 1, [st EXCEPT !.invalid = TRUE])
                      ELSE ParseArgs(argv, index + 2,
                                     [st EXCEPT !.outFile = ArgAt(argv, index + 1)])
                 [] arg = "-O" ->
                      IF Truthy(st.outFile)
                      THEN ParseArgs(argv, index + 1, [st EXCEPT !.invalid = TRUE])
                      ELSE ParseArgs(argv, index + 1,
                                     [st EXCEPT !.outFile = Stream("stdout")])
                 [] arg = "--verbose" ->
                      ParseArgs(argv, index + 1, [st EXCEPT !.verbose = TRUE])
                 [] arg = "--" ->
                      IF index + 2 # argc \/ Truthy(st.inFile)
                      THEN ParseArgs(argv, index + 1,
                                     [st EXCEPT !.endParsing = TRUE, !.invalid = TRUE])
                      ELSE ParseArgs(argv, index + 1,
                                     [st EXCEPT !.endParsing = TRUE,
                                                !.inFile = ArgAt(argv, index + 1)])
                 [] OTHER ->
                      IF StartsWithDash(arg) \/ Truthy(st.inFile)
                      THEN ParseArgs(argv, index + 1, [st EXCEPT !.invalid = TRUE])
                      ELSE ParseArgs(argv, index + 1, [st EXCEPT !.inFile = FileName(arg)])

\* the calls that main makes
ShowHelp(stream) == [method |-> "showHelp", arguments |-> <<stream>>]
ShowVersion == [method |-> "showVersion", arguments |-> <<>>]
Generate(inFile, outFile, verbose) ==
    [method |-> "generate", arguments |-> <<inFile, outFile, verbose>>]

\* main(args)
main(argv, stdinIsTTY, stdoutIsTTY) ==
    IF Len(argv) = 1 /\ argv[1] \in {"--help", "-h"} THEN <<ShowHelp("stdout")>>
    ELSE IF Len(argv) = 1 /\ argv[1] \in {"--version", "-v"} THEN <<ShowVersion>>
    ELSE LET st == ParseArgs(argv, 0, [inFile |-> NotSet, outFile |-> NotSet,
                                       verbose |-> FALSE, invalid |-> FALSE,
                                       endParsing |-> FALSE])
             inFile == IF ~Truthy(st.inFile) /\ ~stdinIsTTY
                       THEN Stream("stdin") ELSE st.inFile
             outFile == IF ~Truthy(st.outFile) /\ ~stdoutIsTTY
                        THEN Stream("stdout") ELSE st.outFile
         IN IF Len(argv) = 0 /\ ~Truthy(inFile) /\ ~Truthy(outFile)
            THEN <<ShowHelp("stdout")>>
            ELSE IF st.invalid \/ ~Truthy(inFile) \/ ~Truthy(outFile)
            THEN <<ShowHelp(IF outFile = Stream("stdout") THEN "stderr" ELSE "stdout")>>
            ELSE <<Generate(inFile, outFile, st.verbose)>>

\* the argument lists
ArgLists == UNION {[1..n -> CliTokens] : n \in 0..MaxArgs}

\* cli.main(args)
Main(argv, stdinIsTTY, stdoutIsTTY) ==
    /\ args = NoArgs
    /\ args' = Invoke("main", [argv |-> argv, stdinIsTTY |-> stdinIsTTY,
                               stdoutIsTTY |-> stdoutIsTTY])
    /\ returned' = Return(main(argv, stdinIsTTY, stdoutIsTTY))
    /\ UNCHANGED stateVars

NextCli == \E argv \in ArgLists, stdinIsTTY, stdoutIsTTY \in BOOLEAN :
               Main(argv, stdinIsTTY, stdoutIsTTY)

SpecCli == Init /\ [][NextCli]_vars

(***************************************************************************)
(* The claims about CLI.main.                                              *)
(***************************************************************************)
MainReturned == returned # NoReturn /\ args.called = "main"

\* what an argument list gives, read from left to right: how often an input
\* and an output are given (by file option, stream option or positional
\* file name), whether an option is unknown, whether -i or -o stands last
\* without a value, and whether "--" is followed by other than one argument
Given(inputs, outputs, unknown, missing, rest) ==
    [inputs |-> inputs, outputs |-> outputs, unknown |-> unknown,
     missing |-> missing, rest |-> rest]

RECURSIVE Reading(_, _, _)
Reading(argv, i, g) ==
    IF i > Len(argv) THEN g
    ELSE LET arg == argv[i]
         IN CASE arg \in {"-i", "-o"} /\ i = Len(argv) ->
                   [g EXCEPT !.missing = TRUE]
              [] arg = "-i" /\ i < Len(argv) ->
                   Reading(argv, i + 2, [g EXCEPT !.inputs = @ + 1])
              [] arg = "-o" /\ i < Len(argv) ->
                   Reading(argv, i + 2, [g EXCEPT !.outputs = @ + 1])
              [] arg = "-I" -> Reading(argv, i + 1, [g EXCEPT !.inputs = @ + 1])
              [] arg = "-O" -> Reading(argv, i + 1, [g EXCEPT !.outputs = @ + 1])
              [] arg = "--verbose" -> Reading(argv, i + 1, g)
              [] arg = "--" ->
                   IF i + 1 = Len(argv) THEN [g EXCEPT !.inputs = @ + 1]
                   ELSE [g EXCEPT !.rest = TRUE]
              [] OTHER ->
                   IF StartsWithDash(arg)
                   THEN Reading(argv, i + 1, [g EXCEPT !.unknown = TRUE])
                   ELSE Reading(argv, i + 1, [g EXCEPT !.inputs = @ + 1])

GivenBy(argv) == Reading(argv, 1, Given(0, 0, FALSE, FALSE, FALSE))

\* a list of the single argument -h or -v asks for the help or the version
AsksForHelpOrVersion(argv) == Len(argv) = 1 /\ argv[1] \in {"-h", "-v"}

CallsOnly(method) == Len(returned.value) = 1 /\ returned.value[1].method = method

\* "--" stands where an option may stand and one argument follows it
EndsWithRest(argv) ==
    /\ Len(argv) >= 2
    /\ argv[Len(argv) - 1] = "--"
    /\ GivenBy(SubSeq(argv, 1, Len(argv) - 2)).missing = FALSE
    /\ GivenBy(argv).inputs = GivenBy(SubSeq(argv, 1, Len(argv) - 2)).inputs + 1

MainAsClaimed ==
    LET argv == args.argument.argv
        g == GivenBy(argv)
    IN /\ Len(returned.value) <= 1
       /\ CallsOnly("generate") =>
             /\ ~g.unknown /\ ~g.missing /\ ~g.rest
             /\ g.inputs = 1 \/ (g.inputs = 0 /\ ~args.argument.stdinIsTTY)
             /\ g.outputs = 1 \/ (g.outputs = 0 /\ ~args.argument.stdoutIsTTY)
             /\ EndsWithRest(argv) =>
                   returned.value[1].arguments[1] = FileName(argv[Len(argv)])
       /\ (~AsksForHelpOrVersion(argv) /\ (g.inputs > 1 \/ g.outputs > 1 \/ g.unknown))
             => CallsOnly("showHelp")

\* C19: main invokes at most one of showHelp, showVersion and generate, and
\* generate only when no argument was invalid and exactly one input and one
\* output were determined; an input or an output given twice, or an unknown
\* option, leads to showHelp; after "--" exactly one further argument is
\* accepted and taken as the input file name even when it starts with "-".
C19_GenerateOnlyForValidArguments ==
    MainReturned => MainAsClaimed

NoEmptyArgument == \A i \in 1..Len(args.argument.argv) : args.argument.argv[i] # ""

\* the same for the lists in which every -i and -o has a value
C19_WhenEveryOptionHasItsValue ==
    (MainReturned /\ ~GivenBy(args.argument.argv).missing) => MainAsClaimed

\* for the lists without an empty argument in which every -i and -o has a
\* value main does as claimed
C19_WithoutEmptyArguments ==
    (MainReturned /\ NoEmptyArgument /\ ~GivenBy(args.argument.argv).missing)
        => MainAsClaimed

\* C20: when -i or -o is the last argument and so has no value, main shows the
\* help and does not call generate, whether or not standard input and
\* standard output are terminals.
C20_MissingValueShowsHelp ==
    (MainReturned /\ GivenBy(args.argument.argv).missing) => CallsOnly("showHelp")

\* with standard input and standard output both terminals it does
C20_MissingValueOnTerminals ==
    (/\ MainReturned
     /\ GivenBy(args.argument.argv).missing
     /\ args.argument.stdinIsTTY
     /\ args.argument.stdoutIsTTY) => CallsOnly("showHelp")

(***************************************************************************)
(* The claims about the models that a normalizeSchema call registers.      *)
(***************************************************************************)
\* a top-level normalizeSchema call has returned
Returned == phase = "done" /\ calls # <<>>

LastCall == calls[Len(calls)]

\* the Object definitions with an id among the definitions that root reaches
\* in h through properties, items and additionalProperties
NamedObjects(h, root) ==
    {a \in ReachableFrom(h, {root}) : h[a].type = "object" /\ h[a].id # NoId}

\* C21: after normalizeSchema returns for a schema, every Object definition
\* that carries an id and is reachable from that schema through properties,
\* array items and additionalProperties, at any depth, is a key of the
\* registry.
C21_NamedObjectsAreRegistered ==
    Returned => \A a \in NamedObjects(heap, LastCall.root) : heap[a].id \in DOMAIN modelMap

\* the same for the schemas in which no definition carries an id and a
\* different $ref
C21_WithoutAliasWithOwnId ==
    (Returned /\ NoAliasWithOwnId) =>
        \A a \in NamedObjects(heap, LastCall.root) : heap[a].id \in DOMAIN modelMap

\* the same for the definitions of the schema as JSON.parse gave it
C21_OfTheParsedSchema ==
    (Returned /\ NoAliasWithOwnId) =>
        \A a \in NamedObjects(parsed, LastCall.root) : parsed[a].id \in DOMAIN modelMap


\* C21, amended: after normalizeSchema returns, every Object definition that
\* carries an id and is reachable from the definition it returned is a key of
\* the registry.
C21_ReturnedNamedObjectsAreRegistered ==
    Returned => \A a \in NamedObjects(heap, LastCall.ret) : heap[a].id \in DOMAIN modelMap

\* a call has returned its own schema, below whose root a model holds another
\* model: both are keys of the registry
C21_Witness ==
    /\ Returned
    /\ LastCall.ret = LastCall.root
    /\ \E b, c \in NamedObjects(heap, LastCall.ret) \ {LastCall.ret} :
          /\ c # b
          /\ heap[c].id # heap[b].id
          /\ c \in ReachableFrom(heap, {b})
          /\ modelMap[heap[b].id] = b
          /\ modelMap[heap[c].id] = c


(***************************************************************************)
(* The placeholders of the URLs after findModelsAndEndpoints               *)
(* (parser.ts:75-106).                                                     *)
(***************************************************************************)
\* the names of the placeholders of a URL, whatever characters they are
\* made of
PlaceholderNames(url) ==
    {SubSeq(url, m[1] + 1, m[2] - 1) : m \in PlaceholderMatches(url)}

\* C22: after findModelsAndEndpoints has returned, the urlParameters of
\* every endpoint has an entry for every {name} placeholder of its URL,
\* whatever characters the name is made of.
C22_EveryPlaceholderHasAnEntry ==
    phase = "returned" =>
        \A e \in DOMAIN endpoints :
            \A name \in PlaceholderNames(endpoints[e].url) :
                Declares(endpoints[e].urlParameters, name)

\* C22 for the names of [a-zA-Z0-9]+, which the pass looks for
C22_EveryAlphaNumericPlaceholderHasAnEntry ==
    phase = "returned" =>
        \A e \in DOMAIN endpoints :
            \A n \in DOMAIN ParameterMatches(endpoints[e].url) :
                Declares(endpoints[e].urlParameters,
                         ParameterMatches(endpoints[e].url)[n].paramName)


(***************************************************************************)
(* addMissingUriParameters (parser.ts:75-106) on the objects of the        *)
(* document: a uriParameters map is an object with an address, the methods *)
(* of one child path hold the same object (parser.ts:59-64), and the       *)
(* urlParameters field of an endpoint holds the address of a map.          *)
(***************************************************************************)
\* const urlParams = childPath.uriParameters: the address of the object of
\* the child path of document entry i (the index of the first entry of
\* that child path), NoAddr when the child path has no uriParameters
UriParametersObject(doc, i) ==
    IF ~doc[i].uriParameters.defined THEN NoAddr
    ELSE CHOOSE k \in 1..i :
             /\ doc[k].pathName = doc[i].pathName
             /\ doc[k].childPathName = doc[i].childPathName
             /\ \A l \in 1..(k - 1) :
                    \/ doc[l].pathName # doc[i].pathName
                    \/ doc[l].childPathName # doc[i].childPathName

\* the objects and the endpoints that findModelsAndEndpoints hands to the pass
ObjectsOf(doc, eps) ==
    LET used == {UriParametersObject(doc, i) : i \in DOMAIN doc} \ {NoAddr}
    IN [objects |-> [a \in used |-> doc[a].uriParameters.map],
        endpoints |-> [e \in DOMAIN eps |->
                          [url |-> eps[e].url,
                           method |-> eps[e].method,
                           urlParameters |-> UriParametersObject(doc, e)]]]

\* the map that an address holds, and the urlParameters field as a value
MapAt(objects, a) == IF a = NoAddr THEN <<>> ELSE objects[a]

ParametersAt(objects, a) ==
    IF a = NoAddr THEN NoParameters ELSE Parameters(objects[a])

\* a target that is the map of the parent itself
MergeIntoParent(objects, parent) == parent

\* the first argument of Object.assign({}, ...): a new object, at an address
\* that holds no object yet
MergeTarget(objects, parent) ==
    CHOOSE a \in 1..(Cardinality(DOMAIN objects) + 1) : a \notin DOMAIN objects

\* Object.assign(target, parentEndpoint.urlParameters,
\*               endpoint.urlParameters || {}): the target gets the entries
\* of the parent and then those of the endpoint
AssignObjects(objects, target, parent, own) ==
    LET before == IF target \in DOMAIN objects THEN objects[target] ELSE <<>>
    IN (target :> (MapAt(objects, own) @@ objects[parent] @@ before)) @@ objects

\* the while loop over the matches of one endpoint
RECURSIVE InheritOf(_, _, _)
InheritOf(st, e, matches) ==
    IF matches = <<>> THEN st
    ELSE LET paramName == Head(matches).paramName
             own == st.endpoints[e].urlParameters
             parentEndpoint == EndpointByUrl(st.endpoints, Head(matches).urlPart)
             parent == st.endpoints[parentEndpoint].urlParameters
             target == MergeTarget(st.objects, parent)
         IN IF own # NoAddr /\ paramName \in DOMAIN st.objects[own]
            THEN InheritOf(st, e, Tail(matches))
            ELSE IF /\ parentEndpoint # NoAddr
                    /\ parent # NoAddr
                    /\ paramName \in DOMAIN st.objects[parent]
            THEN InheritOf(
                     [st EXCEPT !.objects = AssignObjects(@, target, parent, own),
                                !.endpoints[e].urlParameters = target],
                     e, Tail(matches))
            ELSE [st EXCEPT !.error =
                      [kind |-> "No definition of URL parameter",
                       value |-> paramName, shown |-> st.endpoints[e].url]]

\* the for loop over the sorted endpoints
RECURSIVE InheritIn(_, _)
InheritIn(st, order) ==
    IF order = <<>> \/ st.error.kind # "none" THEN st
    ELSE InheritIn(InheritOf(st, Head(order),
                             ParameterMatches(st.endpoints[Head(order)].url)),
                   Tail(order))

\* this.addMissingUriParameters(endpoints); return { endpoints, models }
InheritUriParameters ==
    /\ phase = "idle"
    /\ LET st == ObjectsOf(document, endpoints)
           r == InheritIn([objects |-> st.objects, endpoints |-> st.endpoints,
                           error |-> NoError],
                          SortedByUrlLength(endpoints))
       IN /\ args' = Invoke("addMissingUriParameters", st)
          /\ returned' = Return(r)
          /\ endpoints' = [e \in DOMAIN endpoints |->
                              [endpoints[e] EXCEPT !.urlParameters =
                                   ParametersAt(r.objects, r.endpoints[e].urlParameters)]]
          /\ error' = r.error
          /\ phase' = IF r.error.kind # "none" THEN "failed" ELSE "returned"
    /\ UNCHANGED <<schemaVars, document, output, responseVars>>
    /\ UNCHANGED <<ramlDocument, decoderCalls, written, registries, runs>>

NextInherit ==
    \/ \E r \in Routes, uriParameters \in UriParameterMaps :
           \E methodName \in SeqRange(MethodNames) :
               /\ Len(endpoints) < MaxEndpoints
               /\ DiscoverEndpoint(r[1], r[2], methodName, uriParameters)
    \/ InheritUriParameters

SpecInherit == Init /\ [][NextInherit]_vars

(***************************************************************************)
(* The claim about what the inheritance pass changes.                      *)
(***************************************************************************)
Inherited == returned # NoReturn /\ args.called = "addMissingUriParameters"

\* the pass on the objects gives the endpoints that the pass on the values
\* of the maps gives
InheritAgreesWithValues ==
    [][InheritUriParameters =>
          /\ endpoints' = addMissingUriParameters(endpoints).endpoints
          /\ error' = addMissingUriParameters(endpoints).error]_vars

\* C23: the inheritance pass changes nothing but the urlParameters field of
\* endpoints that lack a declaration for one of their placeholders: every
\* map that existed before the pass (the uriParameters objects of the
\* document, so the map of every ancestor, also one shared by the methods
\* of a child path) holds what it held, a urlParameters field that changed
\* holds a map that did not exist before, the entries an endpoint declared
\* itself are in its map with their definitions, and the order, the URLs
\* and the methods of the endpoints are unchanged. This holds when the pass
\* returns and when it throws.
C23_OnlyUrlParametersOfUndeclaredChange ==
    Inherited =>
        LET before == args.argument
            after == returned.value
        IN /\ \A a \in DOMAIN before.objects :
                  a \in DOMAIN after.objects /\ after.objects[a] = before.objects[a]
           /\ DOMAIN after.endpoints = DOMAIN before.endpoints
           /\ \A e \in DOMAIN before.endpoints :
                  LET old == before.endpoints[e]
                      new == after.endpoints[e]
                  IN /\ new.url = old.url
                     /\ new.method = old.method
                     /\ new.urlParameters # old.urlParameters =>
                            /\ new.urlParameters \notin DOMAIN before.objects
                            /\ new.urlParameters \in DOMAIN after.objects
                            /\ \E name \in PlaceholderNames(old.url) :
                                   name \notin DOMAIN MapAt(before.objects,
                                                            old.urlParameters)
                     /\ \A k \in DOMAIN MapAt(before.objects, old.urlParameters) :
                            /\ k \in DOMAIN MapAt(after.objects, new.urlParameters)
                            /\ MapAt(after.objects, new.urlParameters)[k] =
                                   MapAt(before.objects, old.urlParameters)[k]

\* "/{p}" declares p, the get and the post of "/{p}/{q}" share one map that
\* declares q: after the pass each of the two has a map of its own with p
\* and q, and the shared map holds q alone
C23_Witness ==
    /\ Inherited
    /\ returned.value.error = NoError
    /\ \E b, e, f \in DOMAIN args.argument.endpoints :
          LET before == args.argument
              after == returned.value
              shared == before.endpoints[e].urlParameters
          IN /\ e # f
             /\ before.endpoints[b].url = SegmentP
             /\ before.endpoints[e].url = SegmentP \o SegmentQ
             /\ shared # NoAddr
             /\ before.endpoints[f].urlParameters = shared
             /\ before.objects[shared] = (<<"q">> :> "d2")
             /\ after.objects[shared] = (<<"q">> :> "d2")
             /\ after.endpoints[e].urlParameters # after.endpoints[f].urlParameters
             /\ after.endpoints[e].urlParameters \notin DOMAIN before.objects
             /\ after.endpoints[f].urlParameters \notin DOMAIN before.objects
             /\ after.objects[after.endpoints[e].urlParameters] =
                    (<<"p">> :> "d1") @@ (<<"q">> :> "d2")
             /\ after.objects[after.endpoints[f].urlParameters] =
                    (<<"p">> :> "d1") @@ (<<"q">> :> "d2")
             /\ after.objects[after.endpoints[b].urlParameters] = (<<"p">> :> "d1")


(***************************************************************************)
(* The claim about the rendered type of an Object definition               *)
(* (typescript-renderer.ts:556-576).                                       *)
(***************************************************************************)
\* the definitions whose types renderAll renders: the properties of the
\* registered models
RenderedProperties ==
    UNION {{heap[modelMap[k]].kids[key] :
               key \in DOMAIN heap[modelMap[k]].kids \cap SeqRange(PropKeys)} :
           k \in DOMAIN modelMap}

\* C24: rendering the type of an Object definition gives the derived model
\* name when it has an id or a $ref; otherwise, when it has
\* additionalProperties, a string-keyed map type over the rendered value
\* type; and otherwise, whatever its properties (an empty properties map
\* included), it fails and renderAll produces no text.
C24_ObjectTypeIsNameOrMapOrFails ==
    phase = "rendered" =>
        \A a \in RenderedProperties :
            LET prop == heap[a]
                type == renderTypescriptPropertyDefinition(heap, output.options, a)
            IN prop.type = "object" =>
                  IF prop.id # NoId \/ prop.ref # NoId
                  THEN type = generateModelName(output.options,
                                  IF prop.id # NoId THEN prop.id ELSE prop.ref)
                  ELSE IF "addl" \in DOMAIN prop.kids
                  THEN LET hashType == renderTypescriptPropertyDefinition(
                                           heap, output.options, prop.kids["addl"])
                       IN \/ IsRenderError(hashType) /\ output.threw
                          \/ type = <<"{ [key: string]: ">> \o hashType \o <<" }">>
                  ELSE IsRenderError(type) /\ output.threw

\* C24 for the Object definitions that have at least one property
C24_WithPropertiesNameOrMapOrFails ==
    phase = "rendered" =>
        \A a \in RenderedProperties :
            LET prop == heap[a]
                type == renderTypescriptPropertyDefinition(heap, output.options, a)
            IN (/\ prop.type = "object"
                /\ prop.id = NoId /\ prop.ref = NoId
                /\ "addl" \notin DOMAIN prop.kids
                /\ PropertyKeys(prop) # <<>>) =>
                   IsRenderError(type) /\ output.threw


(***************************************************************************)
(* The claim about additionalProperties (parser.ts:220-223).               *)
(***************************************************************************)
\* the call on top of the stack is the call on the hashType of the call
\* below it, and has not started
EntersHashType ==
    /\ phase = "running"
    /\ Len(stack) >= 2
    /\ stack[Len(stack)].pc = "entry"
    /\ stack[Len(stack) - 1].pc = "awaitAddl"

\* C25: when an Object definition has additionalProperties, the definition
\* that normalizeSchema normalizes in its place has the type tag object, so
\* that it goes through the Object branch.
C25_HashTypeIsObject ==
    EntersHashType => heap[stack[Len(stack)].node].type = "object"

\* C25, amended: when an Object definition has additionalProperties,
\* normalizeSchema normalizes a new definition with the fields of
\* additionalProperties, whose type tag is the one additionalProperties has
\* and object only when it has none, and replaces additionalProperties with
\* the result. The new definition goes through the branch of its type tag:
\* as an Object it is resolved against the registry by $ref or id, and is
\* registered under its id when the key is new; with another type tag it
\* leaves the registry as it is.
C25_HashTypeKeepsItsTypeTag ==
    [][/\ AddlCall =>
              LET source == heap[TopNodeOf(St).kids["addl"]]
                  hashType == stack'[Len(stack')].node
              IN /\ hashType \notin DOMAIN heap
                 /\ heap'[hashType] =
                        [source EXCEPT !.type = IF source.type = NoType
                                                THEN "object" ELSE source.type]
                 /\ EntersHashType'
       /\ EntersHashType =>
              LET hashType == stack[Len(stack)].node
                  key == LookupKey(heap[hashType])
              IN IF heap[hashType].type # "object" THEN modelMap' = modelMap
                 ELSE IF key \in DOMAIN modelMap
                 THEN retval' = modelMap[key] /\ modelMap' = modelMap
                 ELSE IF heap[hashType].id # NoId
                 THEN modelMap' = (heap[hashType].id :> hashType) @@ modelMap
                 ELSE modelMap' = modelMap
       /\ AddlReturn =>
              /\ heap'[TopOf(St).node].kids["addl"] = retval
              /\ retval' = TopOf(St).node]_vars

\* an Object whose additionalProperties is a string has been normalized:
\* its additionalProperties is a new definition that is a string
C25_Witness ==
    /\ Returned
    /\ \E b \in DOMAIN parsed :
          /\ heap[b].type = "object"
          /\ "addl" \in DOMAIN heap[b].kids
          /\ parsed[parsed[b].kids["addl"]].type = "string"
          /\ heap[b].kids["addl"] \notin DOMAIN parsed
          /\ heap[heap[b].kids["addl"]].type = "string"


(***************************************************************************)
(* The claim about the Array case of normalizeSchema (parser.ts:197-204).  *)
(***************************************************************************)
\* the call on top of the stack is the call on the items of the call below
\* it, and has not started
EntersItems ==
    /\ phase = "running"
    /\ Len(stack) >= 2
    /\ stack[Len(stack)].pc = "entry"
    /\ stack[Len(stack) - 1].pc = "awaitItems"

\* C26: normalizeSchema on an Array returns that same array with items
\* replaced by the normalized items, and the array is never in the
\* registry; items without a type tag that have a $ref are normalized as
\* an Object definition, and resolve to the registered model of the $ref
\* when the registry has it.
C26_ArrayKeepsIdentityAndNormalizesItems ==
    /\ [](\A k \in DOMAIN modelMap : heap[modelMap[k]].type = "object")
    /\ [][/\ EnterArray =>
                 /\ modelMap' = modelMap
                 /\ phase' = "running" =>
                        LET items == heap[TopNodeOf(St).kids["items"]]
                            arrayType == stack'[Len(stack')].node
                        IN /\ EntersItems'
                           /\ IF items.type = NoType /\ items.ref # NoId
                              THEN /\ arrayType \notin DOMAIN heap
                                   /\ heap'[arrayType] = [items EXCEPT !.type = "object"]
                              ELSE /\ arrayType = TopNodeOf(St).kids["items"]
                                   /\ heap' = heap
          /\ (/\ EntersItems
              /\ heap[stack[Len(stack)].node].type = "object"
              /\ heap[stack[Len(stack)].node].ref \in DOMAIN modelMap) =>
                 retval' = modelMap[heap[stack[Len(stack)].node].ref]
          /\ ItemsReturn =>
                 /\ retval' = TopOf(St).node
                 /\ heap' = [heap EXCEPT ![TopOf(St).node].kids["items"] = retval]
                 /\ modelMap' = modelMap]_vars

\* after a model X has been registered, an Array whose items are
\* {"$ref": "X"} without a type tag has been normalized: the call returned
\* the array itself, and its items are the registered model
C26_Witness ==
    /\ Returned
    /\ LastCall.ret = LastCall.root
    /\ heap[LastCall.ret].type = "array"
    /\ parsed[parsed[LastCall.root].kids["items"]].type = NoType
    /\ parsed[parsed[LastCall.root].kids["items"]].ref = "X"
    /\ "X" \in DOMAIN modelMap
    /\ heap[LastCall.ret].kids["items"] = modelMap["X"]
    /\ \A k \in DOMAIN modelMap : modelMap[k] # LastCall.ret


(***************************************************************************)
(* The claim about the response types of an endpoint of the endpoint index *)
(* (typescript-renderer.ts:185-225).                                       *)
(***************************************************************************)
\* the untyped fallback: 'responseType: any' with the single entry '200: any'
UntypedFallback ==
    /\ output.responseType = <<<<"any">>>>
    /\ output.responseTypes = <<[statusCode |-> <<"2", "0", "0">>, type |-> <<"any">>]>>

\* the responses that have a body schema
TypedResponses == {k \in DOMAIN responses : responses[k].responseBodySchema # NoSchema}

\* the type of the response of a status code: the rendered type of its body
\* schema, 'undefined' for a 204 without one
TypeOfResponse(k) ==
    IF k \in TypedResponses
    THEN renderTypescriptPropertyDefinition(heap, output.options,
                                            responses[k].responseBodySchema)
    ELSE IF k = <<"2", "0", "4">> THEN <<"undefined">>
    ELSE <<"undefined /* TODO: This is not typed in the RAML */">>

\* C27: the responseType of an endpoint is the union of the rendered types
\* of all its responses, each distinct type once, and its responseTypes
\* lists every status code with its type, a 204 without a body with the
\* type 'undefined'; the untyped fallback is emitted only when the endpoint
\* has no responses or none of them has a body schema, and never for an
\* endpoint with at least one typed response.
C27_FallbackOnlyWithoutTypedResponse ==
    (phase = "rendered" /\ ~output.threw) =>
        IF UntypedFallback THEN TypedResponses = {}
        ELSE /\ SeqRange(output.responseType) = {TypeOfResponse(k) : k \in DOMAIN responses}
             /\ Injective(output.responseType)
             /\ {e.statusCode : e \in SeqRange(output.responseTypes)} = DOMAIN responses
             /\ Len(output.responseTypes) = Cardinality(DOMAIN responses)
             /\ \A i \in DOMAIN output.responseTypes :
                    output.responseTypes[i].type =
                        TypeOfResponse(output.responseTypes[i].statusCode)

\* C27 for the endpoints that have at most two responses
C27_WithAtMostTwoResponses ==
    Cardinality(DOMAIN responses) <= 2 => C27_FallbackOnlyWithoutTypedResponse


(***************************************************************************)
(* The request part of the interface of an endpoint: the request body that *)
(* traverseRequest builds (parser.ts:118-139) and the lines that           *)
(* formatEndpointInterface and formatParameters give for it                *)
(* (typescript-renderer.ts:144-183, 229-241).                              *)
(***************************************************************************)
\* the names of the parameters and of the fields of a body
FieldNames == {"a", "b"}

\* a Parameter: whether its required flag is true (a flag that is absent
\* counts as false wherever it is read), and whether it has a 'repeat' key
RequestParameters == [required : BOOLEAN, repeat : BOOLEAN]

\* the maps from names to Parameters
ParameterMapsOver(params) ==
    UNION {[names -> params] : names \in SUBSET FieldNames}

\* uriParameters and queryParameters of the RAML: absent, or a map
\* (RAML gives every parameter of these a 'repeat' key)
RequestParameterMaps ==
    {[defined |-> FALSE, map |-> <<>>]}
    \cup {[defined |-> TRUE, map |-> m] :
             m \in ParameterMapsOver({p \in RequestParameters : p.repeat})}

\* the body of a request of the RAML: absent; application/json without a
\* schema; application/json with the schema of a model, which has its own
\* required flag (true, false or absent) and properties that have a
\* required flag and no 'repeat' key; multipart/form-data with
\* formParameters
RamlRequestBodies ==
    {[kind |-> "none"], [kind |-> "json", schema |-> [defined |-> FALSE]]}
    \cup {[kind |-> "json",
           schema |-> [defined |-> TRUE, id |-> "X", required |-> r, properties |-> m]] :
             r \in {"undefined", "false", "true"},
             m \in ParameterMapsOver({p \in RequestParameters : ~p.repeat})}
    \cup {[kind |-> "form", formParameters |-> m] :
             m \in ParameterMapsOver(RequestParameters)}

\* Object.keys(map).some(k => map[k].required)
SomeRequired(map) == \E k \in DOMAIN map : map[k].required

\* required: Object.keys(formBody).some(k => formBody[k].required)
RequiredOfForm(formBody) == IF SomeRequired(formBody) THEN "true" ELSE "false"

\* parsedRequest.requestBody of traverseRequest; the schema of a JSON body
\* is what normalizeSchema returns for it with a registry that does not
\* have its id: the parsed schema itself
RequestBodyOf(body) ==
    IF body.kind = "json"
    THEN [defined |-> TRUE, mimeType |-> "application/json", schema |-> body.schema]
    ELSE IF body.kind = "form"
    THEN [defined |-> TRUE, mimeType |-> "multipart/form-data",
          schema |-> [defined |-> TRUE, id |-> NoId,
                      required |-> RequiredOfForm(body.formParameters),
                      properties |-> body.formParameters]]
    ELSE [defined |-> FALSE]

\* formatParameters(paramMap, resultKey): whether the first line has the
\* '?' of an optional key
formatParameters(paramMap) ==
    IF ~paramMap.defined \/ DOMAIN paramMap.map = {} THEN [optional |-> TRUE]
    ELSE [optional |-> ~SomeRequired(paramMap.map)]

\* the body line of formatEndpointInterface: its '?' and whether the
\* rendering of the type of the schema throws (an Object without id whose
\* properties do not all have a 'repeat' key)
FormatBody(requestBody) ==
    IF ~requestBody.defined THEN [optional |-> TRUE, threw |-> FALSE]
    ELSE IF ~requestBody.schema.defined THEN [optional |-> FALSE, threw |-> FALSE]
    ELSE [optional |-> requestBody.schema.required = "false",
          threw |-> /\ requestBody.schema.id = NoId
                    /\ \E k \in DOMAIN requestBody.schema.properties :
                           ~requestBody.schema.properties[k].repeat]

\* traverseRequest has not been called
NoRequest ==
    [urlParameters |-> [defined |-> FALSE, map |-> <<>>],
     queryParameters |-> [defined |-> FALSE, map |-> <<>>],
     body |-> [kind |-> "none"],
     requestBody |-> [defined |-> FALSE]]

RequestBuilt == ArgumentOf("formatEndpointInterface", NoRequest)

\* the RAML gives the endpoint its uriParameters, its queryParameters and
\* its body; traverseRequest copies the parameters and builds requestBody
TraverseRequest(urlParams, queryParams, body) ==
    /\ returned = NoReturn
    /\ args.called = "nothing"
    /\ args' = Invoke("formatEndpointInterface",
                      [urlParameters |-> urlParams,
                       queryParameters |-> queryParams,
                       body |-> body,
                       requestBody |-> RequestBodyOf(body)])
    /\ UNCHANGED <<returned, stateVars>>

\* formatEndpointInterface(endpoint), the request lines
FormatRequest ==
    /\ returned = NoReturn
    /\ args.called = "formatEndpointInterface"
    /\ returned' = Return([urlParams |-> formatParameters(RequestBuilt.urlParameters),
                           queryParams |-> formatParameters(RequestBuilt.queryParameters),
                           body |-> FormatBody(RequestBuilt.requestBody)])
    /\ UNCHANGED <<args, stateVars>>

NextRequest ==
    \/ \E urlParams, queryParams \in RequestParameterMaps, body \in RamlRequestBodies :
           TraverseRequest(urlParams, queryParams, body)
    \/ FormatRequest

SpecRequest == Init /\ [][NextRequest]_vars

(***************************************************************************)
(* The claim about the optional request parts.                             *)
(***************************************************************************)
RequestFormatted ==
    /\ returned # NoReturn
    /\ args.called = "formatEndpointInterface"
    /\ ~returned.value.body.threw

\* the fields of the body of the request of the RAML
BodyFields(body) ==
    IF body.kind = "form" THEN body.formParameters
    ELSE IF body.kind = "json" /\ body.schema.defined THEN body.schema.properties
    ELSE <<>>

ParametersOptionalWhenNoneRequired ==
    /\ returned.value.urlParams.optional <=>
           ~SomeRequired(RequestBuilt.urlParameters.map)
    /\ returned.value.queryParams.optional <=>
           ~SomeRequired(RequestBuilt.queryParameters.map)

\* C28: each request part is optional exactly when none of its fields is
\* required: urlParams and queryParams when the map is absent, empty or has
\* no required parameter, the body when there is no request body or no
\* field of the request body schema is required, for JSON bodies and for
\* multipart form bodies. (A JSON body without a schema has no fields to
\* look at and is left out.)
C28_OptionalExactlyWhenNoFieldRequired ==
    RequestFormatted =>
        /\ ParametersOptionalWhenNoneRequired
        /\ (RequestBuilt.body.kind = "json" => RequestBuilt.body.schema.defined) =>
               (returned.value.body.optional <=>
                    ~SomeRequired(BodyFields(RequestBuilt.body)))

\* C28 for the parameters, for a request without a body and for a
\* multipart form body
C28_ParametersAndFormBody ==
    RequestFormatted =>
        /\ ParametersOptionalWhenNoneRequired
        /\ RequestBuilt.body.kind \in {"none", "form"} =>
               (returned.value.body.optional <=>
                    ~SomeRequired(BodyFields(RequestBuilt.body)))


(***************************************************************************)
(* generateEndpointList and groupEndpointsByMethod                         *)
(* (typescript-renderer.ts:63-119).                                        *)
(***************************************************************************)
\* the endpoints of a document: three of the methods, three URLs of which
\* one is a prefix of another
GroupedEndpoints ==
    [method : {"GET", "POST", "DELETE"},
     url : {<<"/", "a">>, <<"/", "a", "b">>, <<"/", "b">>}]

\* options.methodSortOrder as it is configured: the methods of the
\* endpoints in any order, all of them or some of them
MethodSortOrders ==
    {o \in UNION {[1..n -> {"GET", "POST", "DELETE"}] : n \in 0..3} : Injective(o)}

\* the comparator of grouped[key].sort: it never returns 0
CompareUrls(a, b) == IF StringLess(a.url, b.url) THEN -1 ELSE 1

\* grouped[key].sort((a, b) => a.url < b.url ? -1 : 1): two endpoints of
\* equal URL are "greater" in both directions and their order is up to the
\* engine; every two entries that are ordered consistently come in that
\* order
SortedByUrl(list) ==
    LET n == Len(list)
        perms == {p \in [1..n -> 1..n] : Injective(p)}
        outcomes == {[i \in 1..n |-> list[p[i]]] : p \in perms}
    IN {out \in outcomes :
           \A i, j \in 1..n :
               (CompareUrls(out[i], out[j]) < 0 /\ CompareUrls(out[j], out[i]) > 0)
                   => i < j}

\* groupEndpointsByMethod(endpoints): grouped[method] = [] for the methods
\* of the sort order, grouped[endpoint.method].push(endpoint) for every
\* endpoint, which throws a TypeError when grouped has no such key, and the
\* sort of every group; one result for each outcome of the sorts
groupEndpointsByMethod(eps, order) ==
    IF \E i \in 1..Len(eps) : eps[i].method \notin SeqRange(order)
    THEN {[threw |-> TRUE]}
    ELSE LET Group(method) == SelectSeq(eps, LAMBDA e : e.method = method)
         IN {[threw |-> FALSE,
              keys |-> order,
              grouped |-> g] :
                g \in {f \in [SeqRange(order) ->
                                  UNION {SortedByUrl(Group(m)) : m \in SeqRange(order)}] :
                          \A m \in SeqRange(order) : f[m] \in SortedByUrl(Group(m))}}

\* generateEndpointList(raml): for every key of the groups, the URLs of its
\* endpoints, or '{ }' when it has none
generateEndpointLines(eps, order) ==
    {IF g.threw THEN g
     ELSE [threw |-> FALSE,
           lines |-> [i \in 1..Len(g.keys) |->
                         [method |-> g.keys[i],
                          empty |-> g.grouped[g.keys[i]] = <<>>,
                          urls |-> [k \in 1..Len(g.grouped[g.keys[i]]) |->
                                       g.grouped[g.keys[i]][k].url]]]] :
        g \in groupEndpointsByMethod(eps, order)}

NoRaml == [endpoints |-> <<>>, methodSortOrder |-> methodSortOrder]

RamlEndpoints == ArgumentOf("generateEndpointList", NoRaml)

\* the parser gives the next endpoint of the document
AddGroupedEndpoint(endpoint) ==
    /\ returned = NoReturn
    /\ args.called \in {"nothing", "generateEndpointList"}
    /\ Len(RamlEndpoints.endpoints) < MaxInfos
    /\ args' = Invoke("generateEndpointList",
                      [RamlEndpoints EXCEPT !.endpoints = Append(@, endpoint)])
    /\ UNCHANGED <<returned, stateVars>>

\* new TypescriptModelRenderer({ methodSortOrder: order })
ConfigureMethodSortOrder(order) ==
    /\ returned = NoReturn
    /\ args.called = "nothing"
    /\ args' = Invoke("generateEndpointList",
                      [RamlEndpoints EXCEPT !.methodSortOrder = order])
    /\ UNCHANGED <<returned, stateVars>>

\* generateEndpointList(raml)
GenerateEndpointList ==
    /\ returned = NoReturn
    /\ args.called \in {"nothing", "generateEndpointList"}
    /\ \E lines \in generateEndpointLines(RamlEndpoints.endpoints,
                                          RamlEndpoints.methodSortOrder) :
          /\ args' = Invoke("generateEndpointList", RamlEndpoints)
          /\ returned' = Return(lines)
    /\ UNCHANGED stateVars

NextGroup ==
    \/ \E order \in MethodSortOrders : ConfigureMethodSortOrder(order)
    \/ \E endpoint \in GroupedEndpoints : AddGroupedEndpoint(endpoint)
    \/ GenerateEndpointList

SpecGroup == Init /\ [][NextGroup]_vars

(***************************************************************************)
(* The claim about generateEndpointList.                                   *)
(***************************************************************************)
EndpointListGenerated == returned # NoReturn /\ args.called = "generateEndpointList"

\* how often an endpoint occurs in the document, and in the list under a key
CountInDocument(e) ==
    Cardinality({i \in 1..Len(RamlEndpoints.endpoints) : RamlEndpoints.endpoints[i] = e})

CountInList(lines, e) ==
    Cardinality({ik \in (1..Len(lines)) \X (1..MaxInfos + 1) :
        /\ lines[ik[1]].method = e.method
        /\ ik[2] <= Len(lines[ik[1]].urls)
        /\ lines[ik[1]].urls[ik[2]] = e.url})

\* one key per method of the sort order, in that order, '{ }' for a method
\* without endpoints, every endpoint once under its method, the URLs of a
\* method ascending
GroupedAndSorted(lines) ==
    /\ Len(lines) = Len(RamlEndpoints.methodSortOrder)
    /\ \A i \in 1..Len(lines) :
          /\ lines[i].method = RamlEndpoints.methodSortOrder[i]
          /\ lines[i].empty <=>
                 \A n \in 1..Len(RamlEndpoints.endpoints) :
                     RamlEndpoints.endpoints[n].method # lines[i].method
          /\ \A k, l \in 1..Len(lines[i].urls) :
                 k < l => ~StringLess(lines[i].urls[l], lines[i].urls[k])
    /\ \A e \in GroupedEndpoints : CountInList(lines, e) = CountInDocument(e)

\* C29: generateEndpointList emits one key per method of methodSortOrder,
\* in that order, with '{ }' for a method that has no endpoint; every
\* endpoint of the document appears exactly once, under its own method, and
\* the endpoints of one method are in ascending URL order; for every
\* endpoint list and every configured methodSortOrder, without failure.
C29_GroupedByMethodForEveryOrder ==
    EndpointListGenerated =>
        ~returned.value.threw /\ GroupedAndSorted(returned.value.lines)

\* C29 for a methodSortOrder that has the method of every endpoint
C29_GroupedByMethodOfTheOrder ==
    (/\ EndpointListGenerated
     /\ \A n \in 1..Len(RamlEndpoints.endpoints) :
            RamlEndpoints.endpoints[n].method \in SeqRange(RamlEndpoints.methodSortOrder)) =>
        ~returned.value.threw /\ GroupedAndSorted(returned.value.lines)


(***************************************************************************)
(* Two normalizeSchema calls on one registry (parser.ts:188-230). A call   *)
(* of an async function runs until its first await; every                  *)
(* "await this.normalizeSchema(...)" suspends the caller until the promise *)
(* of the inner call has been settled, and the inner call has run up to    *)
(* its own first await or its return by then. What runs between two        *)
(* suspensions of a call is one step here, and the steps of the two calls  *)
(* come in any order.                                                      *)
(***************************************************************************)
\* a property of the schemas of the calls: absent, a string, or an Object
\* with an id and no $ref
SharedKids == {"absent", "string", "X", "Y"}

\* the schemas of the calls: an Object with an id and no $ref that has no
\* property, the property "p", or the properties "p" and "q"
SharedSchemas ==
    {s \in [id : ModelIds, p : SharedKids, q : SharedKids] :
        s.p = "absent" => s.q = "absent"}

KidNode(kid) ==
    IF kid = "string" THEN Node("string", NoId, NoId, NoKids)
    ELSE Node("object", kid, NoId, NoKids)

\* JSON.parse(schema): the objects of the schema, the root at address a
ParsedSchema(s, a) ==
    IF s.p = "absent" THEN <<Node("object", s.id, NoId, NoKids)>>
    ELSE IF s.q = "absent"
    THEN <<Node("object", s.id, NoId, "p" :> (a + 1)), KidNode(s.p)>>
    ELSE <<Node("object", s.id, NoId, ("p" :> (a + 1)) @@ ("q" :> (a + 2))),
           KidNode(s.p), KidNode(s.q)>>

\* the call on top of the stack waits for the promise of the call it made
AtAwait(st) ==
    st.stack # <<>> /\ TopOf(st).pc \in {"awaitProp", "awaitItems", "awaitAddl"}

\* the call goes on until it is suspended at an await, returns or throws
RECURSIVE RunToAwait(_)
RunToAwait(st) ==
    IF st.stack = <<>> \/ AtAwait(st) THEN st ELSE RunToAwait(NormalizeStep(st))

\* the call from its start to its first suspension
RunFromCall(st) == RunToAwait(st)

\* the first registry is the registry of every call
SharedRegistry == 1

\* normalizeSchema(JSON.parse(schema), models) is called with the registry
\* that the calls share, and runs to its first await
CallShared(s) ==
    /\ phase = "idle"
    /\ Len(runs) < MaxRuns
    /\ LET root == Len(heap) + 1
           h == heap \o ParsedSchema(s, root)
           mm == IF registries = <<>> THEN <<>> ELSE registries[SharedRegistry]
           r == RunFromCall([heap |-> h, modelMap |-> mm, stack |-> <<Frame(root)>>,
                             retval |-> NoAddr, error |-> NoError])
       IN /\ heap' = r.heap
          /\ parsed' = [a \in 1..Len(h) |-> IF a < root THEN parsed[a] ELSE h[a]]
          /\ registries' = <<r.modelMap>>
          /\ runs' = Append(runs, [models |-> SharedRegistry, root |-> root,
                                   stack |-> r.stack, retval |-> r.retval,
                                   error |-> r.error])
    /\ UNCHANGED <<modelMap, stack, retval, phase, path, error, calls, steps>>
    /\ UNCHANGED <<docVars, args, returned, ramlDocument, decoderCalls, written>>

\* the promise that call i awaits has been settled: the call takes the
\* result and goes on to its next await or to its return
ResumeShared(i) ==
    /\ phase = "idle"
    /\ i \in 1..Len(runs)
    /\ runs[i].stack # <<>>
    /\ LET r == RunToAwait(NormalizeStep(RunSt(i)))
       IN /\ heap' = r.heap
          /\ registries' = [registries EXCEPT ![runs[i].models] = r.modelMap]
          /\ runs' = [runs EXCEPT ![i].stack = r.stack,
                                  ![i].retval = r.retval,
                                  ![i].error = r.error]
    /\ UNCHANGED <<modelMap, stack, retval, phase, path, error, calls, steps, parsed>>
    /\ UNCHANGED <<docVars, args, returned, ramlDocument, decoderCalls, written>>

NextShared ==
    \/ \E s \in SharedSchemas : CallShared(s)
    \/ \E i \in 1..MaxRuns : ResumeShared(i)

SpecShared == Init /\ [][NextShared]_vars

(***************************************************************************)
(* The claim about interleaved calls on one registry.                      *)
(***************************************************************************)
\* two calls have been made and both have returned
BothReturned ==
    /\ Len(runs) = 2
    /\ \A i \in 1..2 : runs[i].stack = <<>> /\ runs[i].error = NoError

\* the schemas as they were parsed
ParsedHeap == [a \in 1..Len(heap) |-> parsed[a]]

\* the registry, the objects and the returned instances when call i runs
\* from its call to its return before call j is made
Sequential(i, j) ==
    LET first == NormalizeSchema(ParsedHeap, <<>>, runs[i].root)
        second == NormalizeSchema(first.heap, first.modelMap, runs[j].root)
    IN [heap |-> second.heap, modelMap |-> second.modelMap,
        ret |-> (i :> first.retval) @@ (j :> second.retval)]

Interleaved ==
    [heap |-> heap, modelMap |-> registries[SharedRegistry],
     ret |-> (1 :> runs[1].retval) @@ (2 :> runs[2].retval)]

\* an id is registered once, by the call that looks it up first, and the
\* instance stored under it stays
RegisteredOnce ==
    [][registries # <<>> =>
          \A k \in DOMAIN registries[SharedRegistry] :
              /\ k \in DOMAIN registries'[SharedRegistry]
              /\ registries'[SharedRegistry][k] = registries[SharedRegistry][k]]_vars

\* C30: when two normalizeSchema calls that share one registry are
\* interleaved at their await points, for Objects with an id and no $ref
\* the id is registered once, by the call that sees it first, and every
\* other call gets the stored instance, so that the registry and the
\* returned instances are those of some sequential order of the two calls.
C30_InterleavedCallsAreSequential ==
    BothReturned =>
        \/ Interleaved = Sequential(1, 2)
        \/ Interleaved = Sequential(2, 1)

\* the returned instance of a call is the instance stored under the id of
\* its schema
C30_CallsReturnStoredInstance ==
    BothReturned =>
        \A i \in 1..2 :
            runs[i].retval = registries[SharedRegistry][parsed[runs[i].root].id]

=============================================================================
